---- MODULE Spec2Model ----
(***************************************************************************)
(* Online volume expansion: the controller-side resize request cache       *)
(* (volume_resize_map.go), the node-side filesystem resize cache           *)
(* (volume_fs_resize_map.go) and the node-side populator                   *)
(* (volumeFsResizeMapPopulator), with the annotation handshake between     *)
(* them.                                                                   *)
(***************************************************************************)
EXTENDS Naturals, Integers, Sequences, FiniteSets, TLC

VARIABLES
    apiPods,      \* API server: pod name -> stored pod record
    mountedNodes, \* GetMountedNodesForVolume: nodes with the volume mounted
    fan,          \* record of the last MarkForFileSystemResize call (history)
    pv,           \* API server: the stored PersistentVolume
    pvc,          \* API server: the stored PersistentVolumeClaim
    pvcrs,        \* volumeResizeMap.pvcrs: claim UID -> PVCWithResizeRequest
    fsPods,       \* volumeFsResizeMap.pods: pod -> volume name -> VolumeToResize
    pc,           \* goroutine -> position in the method it is running
    call,         \* goroutine -> the method call it runs and the call's locals
    ctrlLock,     \* holder of volumeResizeMap's RWMutex (NoHolder when free)
    nodeLock,     \* holder of volumeFsResizeMap's Mutex (NoHolder when free)
    log,          \* the entries a later insert replaced in a map (history)
    patchHist,    \* record of the UpdatePVSize calls applied so far (history)
    pmPods,       \* node pod manager: pod name -> the pod record it last saw
    podStatuses,  \* node status provider: pod name -> last observed phase
    deviceSize,   \* the size of the storage device behind the volume
    fsSize,       \* the size of the filesystem mounted from it on the node
    ctrl,         \* the controller's reconciler: its step and its request
    inflight,     \* the node's consumer: the drained entries it works on
    hist,         \* what the last step did and what was delivered (history)
    rec           \* the inputs and results of the calls made so far (history)

apiVars  == <<apiPods, mountedNodes, pv, pvc>>
mapVars  == <<pvcrs, fsPods>>
goVars   == <<pc, call, ctrlLock, nodeLock, log>>
protoVars == <<pmPods, podStatuses, deviceSize, fsSize, ctrl, inflight, hist,
               rec>>
vars     == <<apiPods, mountedNodes, fan, pv, pvc, pvcrs, fsPods, pc, call,
              ctrlLock, nodeLock, log, patchHist, pmPods, podStatuses,
              deviceSize, fsSize, ctrl, inflight, hist, rec>>

----------------------------------------------------------------------------
(* Bounds and small domains *)

MaxSize == 3

Sizes == 1..MaxSize

Pods == {"pod-x", "pod-y", "pod-z"}

NoNode == ""

Nodes == {"n1", "n2"}

\* Names are sequences of characters, so that prefixing is real.
VolumeNames == {<<"a">>, <<"b">>}

\* The volume whose resize is followed.
V == <<"a">>

NoValue == "<absent>"

AnnValues == {"yes", "no"}

----------------------------------------------------------------------------
(* Handshake signal codec (volumehelper) *)

VolumeFsResizeAnnotationPrefix == <<"r", "/">>

GetVolumeFsResizeAnnotation(volumeName) ==
    VolumeFsResizeAnnotationPrefix \o volumeName

IsVolumeFsResizeAnnotation(key) ==
    /\ Len(key) >= Len(VolumeFsResizeAnnotationPrefix)
    /\ SubSeq(key, 1, Len(VolumeFsResizeAnnotationPrefix))
         = VolumeFsResizeAnnotationPrefix

GetVolumeUniqueNameFromFsResizeAnnotation(key) ==
    SubSeq(key, Len(VolumeFsResizeAnnotationPrefix) + 1, Len(key))

\* Annotation keys a pod may carry: the signal keys and unrelated ones, among
\* them a bare volume name and a cut-off prefix.
UnrelatedKeys == {<<"x">>, <<"a">>, <<"r">>}

AnnKeys == {GetVolumeFsResizeAnnotation(v) : v \in VolumeNames} \cup UnrelatedKeys

\* pod.Annotations: a map; an absent key is NoValue here.
NoAnnotations == [k \in AnnKeys |-> NoValue]

HasKey(ann, key) == ann[key] # NoValue

----------------------------------------------------------------------------
(* Controller: MarkForFileSystemResize *)

\* A check against the wrong sentinel.
podHasMarkedForPVCResizingMutant(pod, pvcName) ==
    pod.ann[GetVolumeFsResizeAnnotation(pvcName)] = "true"

\* A check that takes any value of the key for the sentinel.
podHasMarkedAnyValueMutant(pod, pvcName) ==
    HasKey(pod.ann, GetVolumeFsResizeAnnotation(pvcName))

podHasMarkedForPVCResizing(pod, pvcName) ==
    LET key == GetVolumeFsResizeAnnotation(pvcName)
    IN  HasKey(pod.ann, key) /\ pod.ann[key] = "yes"

\* The pod object sent to Update: the copy with the signal set.
updatePodAnnotationForPVCResizing(pod, pvcName) ==
    [pod EXCEPT !.ann[GetVolumeFsResizeAnnotation(pvcName)] = "yes"]

\* The second loop without its markedNodes check.
SkipMarkedNodeMutant(markedNodes, podObj) == FALSE

\* A pod is skipped in the second loop when its node is already marked.
SkipMarkedNode(markedNodes, podObj) == podObj.node \in markedNodes

\* A first loop without the check of the mounted nodes.
RECURSIVE LookupLoopMutant(_, _, _, _, _, _, _, _)
LookupLoopMutant(store, pods, mounted, pvcName, getFails, i, podObjs, markedNodes) ==
    IF i > Len(pods)
    THEN [err |-> FALSE, podObjs |-> podObjs, markedNodes |-> markedNodes]
    ELSE
      LET name == pods[i] IN
      IF name \in getFails
      THEN [err |-> TRUE, podObjs |-> podObjs, markedNodes |-> markedNodes]
      ELSE
        LET podObj == store[name] IN
        IF podObj.node = NoNode \/ podObj.node \in markedNodes
        THEN LookupLoopMutant(store, pods, mounted, pvcName, getFails, i + 1,
                              podObjs, markedNodes)
        ELSE IF podHasMarkedForPVCResizing(podObj, pvcName)
        THEN LookupLoopMutant(store, pods, mounted, pvcName, getFails, i + 1,
                              podObjs, markedNodes \cup {podObj.node})
        ELSE LookupLoopMutant(store, pods, mounted, pvcName, getFails, i + 1,
                              Append(podObjs, podObj), markedNodes)

\* First loop (lines 266-300): look every pod up in the lister, collect the
\* unmarked candidates and the nodes that already have a marked pod.
\* getFails: the pods whose lister lookup fails.
RECURSIVE LookupLoop(_, _, _, _, _, _, _, _)
LookupLoop(store, pods, mounted, pvcName, getFails, i, podObjs, markedNodes) ==
    IF i > Len(pods)
    THEN [err |-> FALSE, podObjs |-> podObjs, markedNodes |-> markedNodes]
    ELSE
      LET name == pods[i] IN
      IF name \in getFails
      THEN [err |-> TRUE, podObjs |-> podObjs, markedNodes |-> markedNodes]
      ELSE
        LET podObj == store[name] IN
        IF podObj.node = NoNode
        THEN LookupLoop(store, pods, mounted, pvcName, getFails, i + 1,
                        podObjs, markedNodes)
        ELSE IF podObj.node \notin mounted
        THEN LookupLoop(store, pods, mounted, pvcName, getFails, i + 1,
                        podObjs, markedNodes)
        ELSE IF podObj.node \in markedNodes
        THEN LookupLoop(store, pods, mounted, pvcName, getFails, i + 1,
                        podObjs, markedNodes)
        ELSE IF podHasMarkedForPVCResizing(podObj, pvcName)
        THEN LookupLoop(store, pods, mounted, pvcName, getFails, i + 1,
                        podObjs, markedNodes \cup {podObj.node})
        ELSE LookupLoop(store, pods, mounted, pvcName, getFails, i + 1,
                        Append(podObjs, podObj), markedNodes)

\* A second loop that goes on to the next pod after a failed update and
\* returns the error at the end.
RECURSIVE MarkLoopMutant(_, _, _, _, _, _, _)
MarkLoopMutant(store, podObjs, pvcName, updFails, j, markedNodes, updated) ==
    IF j > Len(podObjs)
    THEN [err |-> updFails # {}, store |-> store, updated |-> updated]
    ELSE
      LET podObj == podObjs[j] IN
      IF podObj.node \in markedNodes \/ podObj.name \in updFails
      THEN MarkLoopMutant(store, podObjs, pvcName, updFails, j + 1,
                          markedNodes, updated)
      ELSE MarkLoopMutant(
             [store EXCEPT ![podObj.name] =
                 updatePodAnnotationForPVCResizing(podObj, pvcName)],
             podObjs, pvcName, updFails, j + 1,
             markedNodes \cup {podObj.node}, Append(updated, podObj.name))

\* Second loop (lines 302-315): mark the first candidate of every node that
\* has no marked pod yet.  updFails: the pods whose Update call fails.
RECURSIVE MarkLoop(_, _, _, _, _, _, _)
MarkLoop(store, podObjs, pvcName, updFails, j, markedNodes, updated) ==
    IF j > Len(podObjs)
    THEN [err |-> FALSE, store |-> store, updated |-> updated]
    ELSE
      LET podObj == podObjs[j] IN
      IF SkipMarkedNode(markedNodes, podObj)
      THEN MarkLoop(store, podObjs, pvcName, updFails, j + 1, markedNodes, updated)
      ELSE IF podObj.name \in updFails
      THEN [err |-> TRUE, store |-> store, updated |-> updated]
      ELSE MarkLoop(
             [store EXCEPT ![podObj.name] =
                 updatePodAnnotationForPVCResizing(podObj, pvcName)],
             podObjs, pvcName, updFails, j + 1,
             markedNodes \cup {podObj.node}, Append(updated, podObj.name))

\* A call made of one loop, which updates each candidate as soon as it has
\* looked it up.
RECURSIVE OnePassLoop(_, _, _, _, _, _, _, _, _)
OnePassLoop(store, pods, mounted, pvcName, getFails, updFails, i, markedNodes, updated) ==
    IF i > Len(pods)
    THEN [err |-> FALSE, store |-> store, updated |-> updated]
    ELSE
      LET name == pods[i] IN
      IF name \in getFails
      THEN [err |-> TRUE, store |-> store, updated |-> updated]
      ELSE
        LET podObj == store[name] IN
        IF \/ podObj.node = NoNode
           \/ podObj.node \notin mounted
           \/ podObj.node \in markedNodes
        THEN OnePassLoop(store, pods, mounted, pvcName, getFails, updFails,
                         i + 1, markedNodes, updated)
        ELSE IF podHasMarkedForPVCResizing(podObj, pvcName)
        THEN OnePassLoop(store, pods, mounted, pvcName, getFails, updFails,
                         i + 1, markedNodes \cup {podObj.node}, updated)
        ELSE IF name \in updFails
        THEN [err |-> TRUE, store |-> store, updated |-> updated]
        ELSE OnePassLoop(
               [store EXCEPT ![name] =
                   updatePodAnnotationForPVCResizing(podObj, pvcName)],
               pods, mounted, pvcName, getFails, updFails, i + 1,
               markedNodes \cup {podObj.node}, Append(updated, name))

MarkForFileSystemResizeMutant(store, pods, mounted, pvcName, getFails, updFails) ==
    OnePassLoop(store, pods, mounted, pvcName, getFails, updFails, 1, {}, <<>>)

\* The whole call: the store it leaves, whether it returned an error, and the
\* pods it sent an Update for, in order.
MarkForFileSystemResize(store, pods, mounted, pvcName, getFails, updFails) ==
    IF Len(pods) = 0
    THEN [err |-> FALSE, store |-> store, updated |-> <<>>]
    ELSE
      LET looked == LookupLoop(store, pods, mounted, pvcName, getFails, 1,
                               <<>>, {})
      IN  IF looked.err
          THEN [err |-> TRUE, store |-> store, updated |-> <<>>]
          ELSE MarkLoop(store, looked.podObjs, pvcName, updFails, 1,
                        looked.markedNodes, <<>>)

----------------------------------------------------------------------------
(* Values the variables of the other components rest at *)

NoHolder == 0

EmptyMap == <<>>

\* pv.Spec.ClaimRef == nil.
NoRef == [namespace |-> "<nil>", name |-> "<nil>"]

\* The volume record pv-a, bound to claim ns/pvc-a.
InitPV == [name |-> "pv-a",
           claimRef |-> [namespace |-> "ns", name |-> "pvc-a"],
           capacity |-> 1, label |-> "l0"]

\* A claim record ns/pvc-a.  A claim re-created under the same name has
\* another UID.
Claim(uid, phase, status, request) ==
    [uid |-> uid, namespace |-> "ns", name |-> "pvc-a", phase |-> phase,
     request |-> request, status |-> status, conditions |-> "none"]

InitPVC == Claim("u1", "Bound", 1, 1)

NoPV == InitPV

NoPVC == InitPVC

NoFan == [called |-> FALSE, pods |-> <<>>, before |-> <<>>, err |-> FALSE,
          updated |-> <<>>]

NoPatchHist == [n |-> 0]

RestGo ==
    /\ pc = <<>>
    /\ call = <<>>
    /\ ctrlLock = NoHolder
    /\ nodeLock = NoHolder
    /\ log = {}

RestMaps == pvcrs = EmptyMap /\ fsPods = EmptyMap

NoRequest == [PVC |-> InitPVC, PersistentVolume |-> InitPV, CurrentSize |-> 1,
              ExpectedSize |-> 1, ptr |-> 0]

IdleCtrl == [pc |-> "idle", req |-> NoRequest]

NoHist == [op |-> "other", added |-> {}, delivered |-> {}, cleared |-> {},
           fanoutFailed |-> FALSE]

NoRec == [kind |-> "none"]

RestProto ==
    /\ rec = NoRec
    /\ pmPods = EmptyMap
    /\ podStatuses = EmptyMap
    /\ deviceSize = 1
    /\ fsSize = 1
    /\ ctrl = IdleCtrl
    /\ inflight = {}
    /\ hist = NoHist

----------------------------------------------------------------------------
(* Maps with a changing key set *)

MapPut(m, k, v) == [x \in (DOMAIN m) \cup {k} |-> IF x = k THEN v ELSE m[x]]

MapDelete(m, k) == [x \in (DOMAIN m) \ {k} |-> m[x]]

MapValues(m) == {m[k] : k \in DOMAIN m}

----------------------------------------------------------------------------
(* Controller cache: volumeResizeMap *)

\* Lines 125-132: the checks made before the lock is taken.
BoundToClaim(pvcObj, pvObj) ==
    /\ ~(\/ pvObj.claimRef = NoRef
         \/ pvcObj.namespace # pvObj.claimRef.namespace
         \/ pvcObj.name # pvObj.claimRef.name)
    /\ pvcObj.phase = "Bound"

\* A size check that lets equal sizes through.
NeedsResizeMutant(pvcObj) == ~(pvcObj.status > pvcObj.request)

\* Lines 137-142: the size check made under the lock.
NeedsResize(pvcObj) == ~(pvcObj.status >= pvcObj.request)

\* Lines 146-151.  ptr stands for the identity of the allocated request.
PVCWithResizeRequest(pvcObj, pvObj, ptr) ==
    [PVC |-> pvcObj, PersistentVolume |-> pvObj,
     CurrentSize |-> pvcObj.status, ExpectedSize |-> pvcObj.request,
     ptr |-> ptr]

\* A key made of the claim's name.
UniquePVCKeyMutant(pvcObj) == pvcObj.name

UniquePVCKey(pvcObj) == pvcObj.uid

\* An add that turns a claim down when the volume records the requested
\* size already.
AddPVCUpdateMutant(map, pvcObj, pvObj, ptr) ==
    IF ~BoundToClaim(pvcObj, pvObj) THEN map
    ELSE IF ~NeedsResize(pvcObj) \/ pvObj.capacity >= pvcObj.request THEN map
    ELSE MapPut(map, UniquePVCKey(pvcObj),
                PVCWithResizeRequest(pvcObj, pvObj, ptr))

\* The map AddPVCUpdate leaves.
AddPVCUpdate(map, pvcObj, pvObj, ptr) ==
    IF ~BoundToClaim(pvcObj, pvObj) THEN map
    ELSE IF ~NeedsResize(pvcObj) THEN map
    ELSE MapPut(map, UniquePVCKey(pvcObj),
                PVCWithResizeRequest(pvcObj, pvObj, ptr))

\* The batch GetPVCsWithResizeRequest returns; the map it leaves is EmptyMap.
GetPVCsWithResizeRequest(map) == MapValues(map)

\* A removal that takes every entry of the claim's namespace and name.
DeletePVCMutant(map, pvcObj) ==
    [k \in {x \in DOMAIN map : \/ map[x].PVC.namespace # pvcObj.namespace
                                \/ map[x].PVC.name # pvcObj.name} |-> map[k]]

DeletePVC(map, pvcObj) == MapDelete(map, UniquePVCKey(pvcObj))

\* Line 216: the two-way merge patch holds the fields that differ, with
\* their new values.
CreateTwoWayMergePatch(oldObj, newObj) ==
    [f \in {x \in DOMAIN newObj : oldObj[x] # newObj[x]} |-> newObj[f]]

\* Line 222: the server merges the patch into the stored record.
ApplyPatch(stored, patch) ==
    [f \in DOMAIN stored |-> IF f \in DOMAIN patch THEN patch[f] ELSE stored[f]]

\* A patch made from the clone against itself: it is empty.
UpdatePVSizeUnapplied(stored, pvcr, newSize) ==
    LET pvClone == [pvcr.PersistentVolume EXCEPT !.capacity = newSize]
    IN  ApplyPatch(stored, CreateTwoWayMergePatch(pvClone, pvClone))

\* An update that sends the whole modified clone instead of a patch.
UpdatePVSizeMutant(stored, pvcr, newSize) ==
    [pvcr.PersistentVolume EXCEPT !.capacity = newSize]

\* Lines 199-222: the stored volume after a successful UpdatePVSize.
UpdatePVSize(stored, pvcr, newSize) ==
    LET oldPv == pvcr.PersistentVolume
        pvClone == [oldPv EXCEPT !.capacity = newSize]
    IN  ApplyPatch(stored, CreateTwoWayMergePatch(oldPv, pvClone))

\* Lines 233-236: the claim sent to UpdateStatus.
ClaimClone(pvcr, newSize) ==
    [pvcr.PVC EXCEPT !.status = newSize, !.conditions = "none"]

\* Line 238: UpdateStatus is refused when the stored claim is not the one
\* the clone was made from (optimistic concurrency).
UpdateStatusConflicts(stored, pvcr) == stored # pvcr.PVC

\* The stored claim after a successful UpdateStatus: the status part of the
\* clone replaces the stored status.
UpdateStatus(stored, claimClone) ==
    [stored EXCEPT !.status = claimClone.status,
                   !.conditions = claimClone.conditions]

----------------------------------------------------------------------------
(* Node cache: volumeFsResizeMap *)

GetUniquePodName(pod) == pod.name

\* Line 56.  ptr stands for the identity of the pod copy stored.
VolumeToResize(pod, volumeName, ptr) ==
    [Pod |-> pod, VolumeName |-> volumeName, ptr |-> ptr]

\* An add that starts the pod's volume set anew.
AddVolumeForPodMutant(map, volumeName, pod, ptr) ==
    MapPut(map, GetUniquePodName(pod),
           MapPut(EmptyMap, volumeName, VolumeToResize(pod, volumeName, ptr)))

\* The map AddVolumeForPod leaves.
AddVolumeForPod(map, volumeName, pod, ptr) ==
    LET podName == GetUniquePodName(pod)
        volumes == IF podName \in DOMAIN map THEN map[podName] ELSE EmptyMap
    IN  MapPut(map, podName,
               MapPut(volumes, volumeName, VolumeToResize(pod, volumeName, ptr)))

\* The batch GetVolumesToResize returns; the map it leaves is EmptyMap.
GetVolumesToResize(map) ==
    UNION {MapValues(map[podName]) : podName \in DOMAIN map}

\* An update that sends the fetched pod back as it is.
ClearedPodMutant(podObj, volumeName) == podObj

\* Lines 84-92: the pod sent to Update by MarkAsFileSystemResized, made from
\* the record just fetched.
ClearedPod(podObj, volumeName) ==
    [podObj EXCEPT !.ann[GetVolumeFsResizeAnnotation(volumeName)] = NoValue]

\* A call that builds its update from the pod passed in.
MarkAsFileSystemResizedMutant(store, pod, volumeName, getFails, updFails) ==
    IF getFails THEN [err |-> TRUE, store |-> store]
    ELSE IF ~HasKey(store[pod.name].ann, GetVolumeFsResizeAnnotation(volumeName))
    THEN [err |-> FALSE, store |-> store]
    ELSE IF updFails THEN [err |-> TRUE, store |-> store]
    ELSE [err |-> FALSE,
          store |-> [store EXCEPT ![pod.name] = ClearedPod(pod, volumeName)]]

\* A call that sends its update whether or not the key is there.
MarkAsFileSystemResizedAlwaysMutant(store, pod, volumeName, getFails, updFails) ==
    IF getFails \/ updFails THEN [err |-> TRUE, store |-> store]
    ELSE [err |-> FALSE,
          store |-> [store EXCEPT ![pod.name] =
                                    ClearedPod(store[pod.name], volumeName)]]

\* Lines 74-98: the whole call, with the store it leaves and whether it
\* returned an error.  getFails, updFails: whether the Get, the Update fails.
MarkAsFileSystemResized(store, pod, volumeName, getFails, updFails) ==
    IF getFails THEN [err |-> TRUE, store |-> store]
    ELSE
      LET podObj == store[pod.name]
          annKey == GetVolumeFsResizeAnnotation(volumeName)
      IN  IF ~HasKey(podObj.ann, annKey)
          THEN [err |-> FALSE, store |-> store]
          ELSE IF updFails
          THEN [err |-> TRUE, store |-> store]
          ELSE [err |-> FALSE,
                store |-> [store EXCEPT ![pod.name] =
                                          ClearedPod(podObj, volumeName)]]

----------------------------------------------------------------------------
(* SpecFanout: MarkForFileSystemResize over every pod placement, signal    *)
(* state, visiting order and failing call                                  *)

\* Sequences without repetition over the subsets of S: the orders in which
\* GetPodsInVolume may list the pods using the volume.
RECURSIVE Orders(_)
Orders(S) ==
    IF S = {} THEN {<<>>}
    ELSE {<<>>} \cup
         UNION {{<<x>> \o o : o \in Orders(S \ {x})} : x \in S}

Range(s) == {s[i] : i \in 1..Len(s)}

\* The call of one MarkForFileSystemResize run that fails, if any: the lister
\* lookup or the Update of one pod (the run returns at its first error, so one
\* failing call is every case).
NoFail == [kind |-> "none", pod |-> ""]

FailChoices ==
    {NoFail} \cup {[kind |-> k, pod |-> p] : k \in {"get", "update"}, p \in Pods}

FailsOf(fail, kind) == IF fail.kind = kind THEN {fail.pod} ELSE {}

InitFanout ==
    /\ \E nodeOf \in [Pods -> Nodes \cup {NoNode}],
          sig \in [Pods -> AnnValues \cup {NoValue}] :
         apiPods = [p \in Pods |->
                      [name |-> p, node |-> nodeOf[p], phase |-> "Running",
                       ann |-> [NoAnnotations EXCEPT
                                  ![GetVolumeFsResizeAnnotation(V)] = sig[p]]]]
    /\ mountedNodes \in SUBSET Nodes
    /\ fan = NoFan
    /\ pv = NoPV
    /\ pvc = NoPVC
    /\ patchHist = NoPatchHist
    /\ RestMaps
    /\ RestGo
    /\ RestProto

FanoutCall ==
    /\ ~fan.called
    /\ \E pods \in Orders(Pods), fail \in FailChoices :
         LET r == MarkForFileSystemResize(apiPods, pods, mountedNodes, V,
                                          FailsOf(fail, "get"),
                                          FailsOf(fail, "update"))
         IN  /\ apiPods' = r.store
             /\ fan' = [called |-> TRUE, pods |-> pods, before |-> apiPods,
                        err |-> r.err, updated |-> r.updated]
             /\ UNCHANGED <<protoVars, mountedNodes, pv, pvc, patchHist, mapVars, goVars>>

NextFanout == FanoutCall

SpecFanout == InitFanout /\ [][NextFanout]_vars

\* The pods the last call visited that were on node n when it started.
VisitedOn(n) == {p \in Range(fan.pods) : fan.before[p].node = n}

SignalYes(store, p, volumeName) ==
    store[p].ann[GetVolumeFsResizeAnnotation(volumeName)] = "yes"

(* C2: per-node dedup.  After a MarkForFileSystemResize call on V that     *)
(* returned without error, on every node where V is mounted that hosts two *)
(* or more of the visited pods, none of which had V's signal at "yes"      *)
(* before the call, exactly one of those pods has the signal "yes",        *)
(* whatever the visiting order.                                            *)
C2_PerNodeDedup ==
    (fan.called /\ ~fan.err) =>
      \A n \in mountedNodes :
        (/\ Cardinality(VisitedOn(n)) >= 2
         /\ \A p \in VisitedOn(n) : ~SignalYes(fan.before, p, V))
        => Cardinality({p \in VisitedOn(n) : SignalYes(apiPods, p, V)}) = 1

C2_Witness ==
    /\ fan.called /\ ~fan.err
    /\ \E n \in mountedNodes :
         /\ Cardinality(VisitedOn(n)) >= 2
         /\ \A p \in VisitedOn(n) : ~SignalYes(fan.before, p, V)
         /\ \E p \in VisitedOn(n) : SignalYes(apiPods, p, V)

(* C18: MarkForFileSystemResize changes no pod that has no node and no pod *)
(* whose node is not among the nodes reported as having the volume        *)
(* mounted, whether the call succeeds or fails; called with no pod using  *)
(* the volume it returns without error and without any update.            *)
C18_OnlyMountedScheduledPods ==
    fan.called =>
      /\ \A p \in Pods :
           (\/ p \in Range(fan.updated)
            \/ apiPods[p] # fan.before[p])
           => /\ fan.before[p].node # NoNode
              /\ fan.before[p].node \in mountedNodes
      /\ fan.pods = <<>> =>
           /\ ~fan.err
           /\ fan.updated = <<>>
           /\ apiPods = fan.before

\* A call that visited an unscheduled pod and a pod of a node without the
\* volume, neither carrying the signal, and marked a pod of a mounted node.
C18_Witness ==
    /\ fan.called /\ ~fan.err
    /\ Range(fan.pods) = Pods
    /\ \E p, q, r \in Pods :
         /\ fan.before[p].node = NoNode
         /\ fan.before[q].node \in Nodes \ mountedNodes
         /\ ~SignalYes(fan.before, p, V) /\ ~SignalYes(fan.before, q, V)
         /\ apiPods[p] = fan.before[p] /\ apiPods[q] = fan.before[q]
         /\ fan.updated = <<r>>
         /\ SignalYes(apiPods, r, V)

(* C4: an already marked pod short-circuits its node.  If a visited pod on *)
(* a mounted node n had V's signal at "yes" when the call started, the     *)
(* call changes no other pod of n, wherever the marked pod stands in the   *)
(* visiting order.                                                         *)
C4_MarkedShortCircuits ==
    fan.called =>
      \A n \in mountedNodes :
        (\E p \in VisitedOn(n) : SignalYes(fan.before, p, V))
        => \A q \in Pods :
             fan.before[q].node = n => apiPods[q] = fan.before[q]

\* The marked pod is visited last, after an unmarked pod of its node.
C4_Witness ==
    /\ fan.called /\ ~fan.err
    /\ Len(fan.pods) >= 2
    /\ LET last == fan.pods[Len(fan.pods)]
           first == fan.pods[1]
       IN  /\ fan.before[last].node \in mountedNodes
           /\ fan.before[first].node = fan.before[last].node
           /\ SignalYes(fan.before, last, V)
           /\ ~SignalYes(fan.before, first, V)
           /\ ~SignalYes(apiPods, first, V)

----------------------------------------------------------------------------
(* SpecCache: goroutines calling the methods of the two caches at once,    *)
(* each method split at its Lock, its external calls and its return        *)

NumCallers == 3

Goroutines == 1..NumCallers

CtrlOps == {"AddPVCUpdate", "GetPVCsWithResizeRequest", "DeletePVC",
            "MarkAsResized", "UpdatePVSize"}

NodeOps == {"AddVolumeForPod", "GetVolumesToResize"}

NoCall == [op |-> "none", pvc |-> InitPVC, vol |-> V, ret |-> {},
           accepted |-> FALSE]

\* The pod the node-side calls of this specification are about.
CallPod == [name |-> "pod-x", node |-> "n1", phase |-> "Running",
            ann |-> [NoAnnotations EXCEPT
                       ![GetVolumeFsResizeAnnotation(V)] = "yes"]]

\* The request the MarkAsResized and UpdatePVSize calls are about.
CallRequest == PVCWithResizeRequest(Claim("u1", "Bound", 1, 2), InitPV, 0)

\* The calls a goroutine may make: enqueues that are accepted (two claim
\* UIDs, two volumes of one pod), enqueues that are turned down before and
\* under the lock, drains, a removal and the calls that reach the API server.
CallChoices ==
    {[NoCall EXCEPT !.op = "AddPVCUpdate", !.pvc = c] :
        c \in {Claim("u1", "Bound", 1, 2), Claim("u2", "Bound", 1, 2),
               Claim("u1", "Bound", 2, 2), Claim("u2", "Pending", 1, 2)}}
    \cup {[NoCall EXCEPT !.op = o] :
            o \in {"GetPVCsWithResizeRequest", "DeletePVC", "MarkAsResized",
                   "UpdatePVSize", "GetVolumesToResize",
                   "MarkAsFileSystemResized"}}
    \cup {[NoCall EXCEPT !.op = "AddVolumeForPod", !.vol = v] : v \in VolumeNames}

InitCache ==
    /\ pc = [g \in Goroutines |-> "idle"]
    /\ call = [g \in Goroutines |-> NoCall]
    /\ ctrlLock = NoHolder
    /\ nodeLock = NoHolder
    /\ log = {}
    /\ pvcrs = EmptyMap
    /\ fsPods = EmptyMap
    /\ apiPods = [p \in {"pod-x"} |-> CallPod]
    /\ mountedNodes = {"n1"}
    /\ pv = InitPV
    /\ pvc = Claim("u1", "Bound", 1, 2)
    /\ fan = NoFan
    /\ patchHist = NoPatchHist
    /\ RestProto

Goto(g, where) == pc' = [pc EXCEPT ![g] = where]

\* A mutex that lets a second goroutine in.
LockFreeMutant(holder) == TRUE

\* sync.Mutex.Lock returns only when no goroutine holds the mutex.
LockFree(holder) == holder = NoHolder

\* A goroutine starts one call.  One drain per cache at a time is started.
Begin(g) ==
    /\ pc[g] = "idle"
    /\ \E c \in CallChoices :
         /\ c.op \in {"GetPVCsWithResizeRequest", "GetVolumesToResize"}
              => \A h \in Goroutines : call[h].op # c.op
         /\ call' = [call EXCEPT ![g] = c]
    /\ Goto(g, "start")
    /\ UNCHANGED <<protoVars, apiVars, fan, patchHist, mapVars, ctrlLock, nodeLock, log>>

\* AddPVCUpdate, lines 125-132: returns before the lock.
AddPVCUpdateTurnedDown(g) ==
    /\ pc[g] = "start" /\ call[g].op = "AddPVCUpdate"
    /\ ~BoundToClaim(call[g].pvc, InitPV)
    /\ Goto(g, "done")
    /\ UNCHANGED <<protoVars, apiVars, fan, patchHist, mapVars, call, ctrlLock, nodeLock, log>>

\* resizeMap.Lock() of the controller cache's methods (lines 134, 157, 172,
\* 181, 196).
CtrlLock(g) ==
    /\ pc[g] = "start" /\ call[g].op \in CtrlOps
    /\ call[g].op = "AddPVCUpdate" => BoundToClaim(call[g].pvc, InitPV)
    /\ LockFree(ctrlLock)
    /\ ctrlLock' = g
    /\ Goto(g, "locked")
    /\ UNCHANGED <<protoVars, apiVars, fan, patchHist, mapVars, call, nodeLock, log>>

\* AddPVCUpdate, lines 137-153, and the deferred Unlock.
AddPVCUpdateBody(g) ==
    /\ pc[g] = "locked" /\ call[g].op = "AddPVCUpdate"
    /\ pvcrs' = AddPVCUpdate(pvcrs, call[g].pvc, InitPV, g)
    /\ call' = [call EXCEPT ![g].accepted = NeedsResize(call[g].pvc)]
    /\ log' = IF NeedsResize(call[g].pvc)
                 /\ UniquePVCKey(call[g].pvc) \in DOMAIN pvcrs
              THEN log \cup {pvcrs[UniquePVCKey(call[g].pvc)]}
              ELSE log
    /\ ctrlLock' = NoHolder
    /\ Goto(g, "done")
    /\ UNCHANGED <<protoVars, apiVars, fan, patchHist, fsPods, nodeLock>>

\* GetPVCsWithResizeRequest, lines 160-163: the loop that copies the map.
GetPVCsCopy(g) ==
    /\ pc[g] = "locked" /\ call[g].op = "GetPVCsWithResizeRequest"
    /\ call' = [call EXCEPT ![g].ret = GetPVCsWithResizeRequest(pvcrs)]
    /\ Goto(g, "copied")
    /\ UNCHANGED <<protoVars, apiVars, fan, patchHist, mapVars, ctrlLock, nodeLock, log>>

\* GetPVCsWithResizeRequest, lines 165-166, and the deferred Unlock.
GetPVCsReset(g) ==
    /\ pc[g] = "copied" /\ call[g].op = "GetPVCsWithResizeRequest"
    /\ pvcrs' = EmptyMap
    /\ ctrlLock' = NoHolder
    /\ Goto(g, "done")
    /\ UNCHANGED <<protoVars, apiVars, fan, patchHist, fsPods, call, nodeLock, log>>

\* DeletePVC, lines 174-176, and the deferred Unlock.
DeletePVCBody(g) ==
    /\ pc[g] = "locked" /\ call[g].op = "DeletePVC"
    /\ pvcrs' = DeletePVC(pvcrs, call[g].pvc)
    /\ ctrlLock' = NoHolder
    /\ Goto(g, "done")
    /\ UNCHANGED <<protoVars, apiVars, fan, patchHist, fsPods, call, nodeLock, log>>

\* MarkAsResized (line 238) and UpdatePVSize (line 222): the request to the
\* API server is sent; the goroutine waits for the answer.
CtrlSend(g) ==
    /\ pc[g] = "locked" /\ call[g].op \in {"MarkAsResized", "UpdatePVSize"}
    /\ Goto(g, "api")
    /\ UNCHANGED <<protoVars, apiVars, fan, patchHist, mapVars, call, ctrlLock, nodeLock, log>>

\* MarkAsResized, lines 238-243 and 187-191: the answer arrives, the method
\* returns and the deferred Unlock runs.
MarkAsResizedReturn(g) ==
    /\ pc[g] = "api" /\ call[g].op = "MarkAsResized"
    /\ \/ /\ ~UpdateStatusConflicts(pvc, CallRequest)
          /\ pvc' = UpdateStatus(pvc, ClaimClone(CallRequest, 2))
       \/ pvc' = pvc
    /\ ctrlLock' = NoHolder
    /\ Goto(g, "done")
    /\ UNCHANGED <<protoVars, apiPods, mountedNodes, pv, fan, patchHist, mapVars, call,
                   nodeLock, log>>

\* UpdatePVSize, lines 222-228: the answer arrives, the method returns and
\* the deferred Unlock runs.
UpdatePVSizeReturn(g) ==
    /\ pc[g] = "api" /\ call[g].op = "UpdatePVSize"
    /\ \/ pv' = UpdatePVSize(pv, CallRequest, 2)
       \/ pv' = pv
    /\ ctrlLock' = NoHolder
    /\ Goto(g, "done")
    /\ UNCHANGED <<protoVars, apiPods, mountedNodes, pvc, fan, patchHist, mapVars, call,
                   nodeLock, log>>

\* resizeMap.Lock() of the node cache's methods (lines 46, 60).
NodeLock(g) ==
    /\ pc[g] = "start" /\ call[g].op \in NodeOps
    /\ LockFree(nodeLock)
    /\ nodeLock' = g
    /\ Goto(g, "locked")
    /\ UNCHANGED <<protoVars, apiVars, fan, patchHist, mapVars, call, ctrlLock, log>>

\* AddVolumeForPod, lines 50-56, and the deferred Unlock.
AddVolumeForPodBody(g) ==
    /\ pc[g] = "locked" /\ call[g].op = "AddVolumeForPod"
    /\ fsPods' = AddVolumeForPod(fsPods, call[g].vol, CallPod, g)
    /\ call' = [call EXCEPT ![g].accepted = TRUE]
    /\ log' = IF /\ GetUniquePodName(CallPod) \in DOMAIN fsPods
                 /\ call[g].vol \in DOMAIN fsPods[GetUniquePodName(CallPod)]
              THEN log \cup {fsPods[GetUniquePodName(CallPod)][call[g].vol]}
              ELSE log
    /\ nodeLock' = NoHolder
    /\ Goto(g, "done")
    /\ UNCHANGED <<protoVars, apiVars, fan, patchHist, pvcrs, ctrlLock>>

\* GetVolumesToResize, lines 63-68: the loops that copy the map.
GetVolumesCopy(g) ==
    /\ pc[g] = "locked" /\ call[g].op = "GetVolumesToResize"
    /\ call' = [call EXCEPT ![g].ret = GetVolumesToResize(fsPods)]
    /\ Goto(g, "copied")
    /\ UNCHANGED <<protoVars, apiVars, fan, patchHist, mapVars, ctrlLock, nodeLock, log>>

\* GetVolumesToResize, lines 69-71, and the deferred Unlock.
GetVolumesReset(g) ==
    /\ pc[g] = "copied" /\ call[g].op = "GetVolumesToResize"
    /\ fsPods' = EmptyMap
    /\ nodeLock' = NoHolder
    /\ Goto(g, "done")
    /\ UNCHANGED <<protoVars, apiVars, fan, patchHist, pvcrs, call, ctrlLock, log>>

\* MarkAsFileSystemResized, line 79: the Get is sent.  No lock is taken.
FsResizedSendGet(g) ==
    /\ pc[g] = "start" /\ call[g].op = "MarkAsFileSystemResized"
    /\ Goto(g, "api")
    /\ UNCHANGED <<protoVars, apiVars, fan, patchHist, mapVars, call, ctrlLock, nodeLock, log>>

\* MarkAsFileSystemResized, lines 79-92: the Get is answered; on an error or
\* an absent key the method returns, otherwise the Update is sent.
FsResizedGetReturn(g) ==
    /\ pc[g] = "api" /\ call[g].op = "MarkAsFileSystemResized"
    /\ \/ Goto(g, "done")
       \/ /\ HasKey(apiPods[CallPod.name].ann, GetVolumeFsResizeAnnotation(V))
          /\ Goto(g, "api2")
       \/ /\ ~HasKey(apiPods[CallPod.name].ann, GetVolumeFsResizeAnnotation(V))
          /\ Goto(g, "done")
    /\ UNCHANGED <<protoVars, apiVars, fan, patchHist, mapVars, call, ctrlLock, nodeLock, log>>

\* MarkAsFileSystemResized, lines 92-97: the Update is answered.
FsResizedUpdateReturn(g) ==
    /\ pc[g] = "api2" /\ call[g].op = "MarkAsFileSystemResized"
    /\ \/ apiPods' = [apiPods EXCEPT ![CallPod.name] =
                         ClearedPod(apiPods[CallPod.name], V)]
       \/ apiPods' = apiPods
    /\ Goto(g, "done")
    /\ UNCHANGED <<protoVars, mountedNodes, pv, pvc, fan, patchHist, mapVars, call,
                   ctrlLock, nodeLock, log>>

NextCache ==
    \E g \in Goroutines :
       \/ Begin(g)
       \/ AddPVCUpdateTurnedDown(g)
       \/ CtrlLock(g)
       \/ AddPVCUpdateBody(g)
       \/ GetPVCsCopy(g)
       \/ GetPVCsReset(g)
       \/ DeletePVCBody(g)
       \/ CtrlSend(g)
       \/ MarkAsResizedReturn(g)
       \/ UpdatePVSizeReturn(g)
       \/ NodeLock(g)
       \/ AddVolumeForPodBody(g)
       \/ GetVolumesCopy(g)
       \/ GetVolumesReset(g)
       \/ FsResizedSendGet(g)
       \/ FsResizedGetReturn(g)
       \/ FsResizedUpdateReturn(g)

SpecCache == InitCache /\ [][NextCache]_vars

AllDone == \A g \in Goroutines : pc[g] = "done"

\* The entry an accepted enqueue call stored.
EntryOf(g) ==
    IF call[g].op = "AddPVCUpdate"
    THEN PVCWithResizeRequest(call[g].pvc, InitPV, g)
    ELSE VolumeToResize(CallPod, call[g].vol, g)

\* The entry is in the batch a drain of its cache returned.
InBatch(g) ==
    \E h \in Goroutines :
       /\ call[h].op = (IF call[g].op = "AddPVCUpdate"
                        THEN "GetPVCsWithResizeRequest"
                        ELSE "GetVolumesToResize")
       /\ EntryOf(g) \in call[h].ret

\* The entry is in its cache.
InCache(g) ==
    IF call[g].op = "AddPVCUpdate"
    THEN EntryOf(g) \in MapValues(pvcrs)
    ELSE EntryOf(g) \in GetVolumesToResize(fsPods)

NoRemoval == \A g \in Goroutines : call[g].op # "DeletePVC"

C9_NoExternalCallUnderLock ==
    \A g \in Goroutines :
      pc[g] \in {"api", "api2"} => (ctrlLock # g /\ nodeLock # g)

----------------------------------------------------------------------------
(* SpecPatch: UpdatePVSize applied to a stored volume, from a request      *)
(* whose volume snapshot may be older than the stored record               *)

MaxApplications == 2

Labels == {"l0", "l1"}

InitPatch ==
    /\ \E c \in Sizes, l \in Labels :
         pv = [InitPV EXCEPT !.capacity = c, !.label = l]
    /\ \E c \in Sizes, l \in Labels, newSize \in Sizes :
         /\ c <= pv.capacity
         /\ c <= newSize
         /\ patchHist =
              [n |-> 0,
               pvcr |-> PVCWithResizeRequest(
                           Claim("u1", "Bound", c, newSize),
                           [InitPV EXCEPT !.capacity = c, !.label = l], 0),
               newSize |-> newSize,
               before |-> pv, after |-> pv, afterFirst |-> pv]
    /\ pvc = InitPVC
    /\ apiPods = EmptyMap
    /\ mountedNodes = {}
    /\ fan = NoFan
    /\ RestMaps
    /\ RestGo
    /\ RestProto

\* UpdatePVSize returns nil: the patch was applied.
UpdatePVSizeApplied ==
    /\ patchHist.n < MaxApplications
    /\ pv' = UpdatePVSize(pv, patchHist.pvcr, patchHist.newSize)
    /\ patchHist' = [patchHist EXCEPT
                       !.n = @ + 1, !.before = pv, !.after = pv',
                       !.afterFirst = IF patchHist.n = 0 THEN pv' ELSE @]
    /\ UNCHANGED <<protoVars, apiPods, mountedNodes, pvc, fan, mapVars, goVars>>

\* UpdatePVSize returns the Patch call's error: the stored volume is as it was.
UpdatePVSizeFailed ==
    /\ patchHist.n < MaxApplications
    /\ UNCHANGED vars

\* Another client edits a field of the stored volume other than its capacity.
EditVolumeLabel ==
    /\ \E l \in Labels \ {pv.label} : pv' = [pv EXCEPT !.label = l]
    /\ UNCHANGED <<protoVars, apiPods, mountedNodes, pvc, fan, patchHist, mapVars, goVars>>

NextPatch == UpdatePVSizeApplied \/ UpdatePVSizeFailed \/ EditVolumeLabel

SpecPatch == InitPatch /\ [][NextPatch]_vars

(* C10: idempotent patch.  A second successful UpdatePVSize for the same   *)
(* request and new size leaves the stored volume with the capacity the     *)
(* first left, and every application leaves each field of the stored       *)
(* volume other than its capacity as it found it, edits made by others     *)
(* after the request's snapshot included.                                  *)
C10_IdempotentPatch ==
    /\ patchHist.n >= 1 =>
         \A f \in (DOMAIN pv) \ {"capacity"} :
            patchHist.after[f] = patchHist.before[f]
    /\ patchHist.n >= 2 => pv.capacity = patchHist.afterFirst.capacity

\* Applied twice, with a label edit by another client that the request's
\* snapshot does not have, and a capacity that changed.
C10_Witness ==
    /\ patchHist.n = 2
    /\ pv.label # patchHist.pvcr.PersistentVolume.label
    /\ pv.capacity = patchHist.newSize
    /\ pv.capacity # patchHist.pvcr.PersistentVolume.capacity


----------------------------------------------------------------------------
(* Node: volumeFsResizeMapPopulator *)

\* volumehelper.IsPodTerminated: the phases in which a pod has finished.
IsPodTerminated(podStatus) == podStatus \in {"Failed", "Succeeded"}

\* A check that looks at the pod's own status only.
isPodTerminatedMutant(pod, statuses) == IsPodTerminated(pod.phase)

\* Lines 65-71: the status provider's status when it has one, the pod's own
\* status otherwise.
isPodTerminated(pod, statuses) ==
    LET podStatus == IF pod.name \in DOMAIN statuses
                     THEN statuses[pod.name]
                     ELSE pod.phase
    IN  IsPodTerminated(podStatus)

\* A check against another sentinel.
PendingValueMutant(value) == value = "true"

\* Line 78: the value that counts as pending.
PendingValue(value) == value = "yes"

\* A scan that takes every annotation at "yes" for a signal.
SignalKeysMutant(pod) ==
    {key \in AnnKeys : HasKey(pod.ann, key) /\ pod.ann[key] = "yes"}

\* Lines 77-82: the annotation keys of a pod that make an entry.
SignalKeys(pod) ==
    {key \in AnnKeys : /\ HasKey(pod.ann, key)
                       /\ IsVolumeFsResizeAnnotation(key)
                       /\ PendingValue(pod.ann[key])}

\* Lines 73-83: one AddVolumeForPod per pending signal key; the keys of one
\* pod name different volumes, so the order of the loop does not matter.
RECURSIVE processPodVolumes(_, _, _)
processPodVolumes(map, pod, keys) ==
    IF keys = {} THEN map
    ELSE LET key == CHOOSE k \in keys : TRUE
         IN  processPodVolumes(
               AddVolumeForPod(map,
                               GetVolumeUniqueNameFromFsResizeAnnotation(key),
                               pod, 0),
               pod, keys \ {key})

\* Lines 54-62: the node cache after one cycle over the pod manager's pods.
RECURSIVE addNewPods(_, _, _, _)
addNewPods(map, pods, statuses, names) ==
    IF names = {} THEN map
    ELSE LET name == CHOOSE n \in names : TRUE
             podObj == pods[name]
         IN  IF isPodTerminated(podObj, statuses)
             THEN addNewPods(map, pods, statuses, names \ {name})
             ELSE addNewPods(processPodVolumes(map, podObj, SignalKeys(podObj)),
                             pods, statuses, names \ {name})

\* A cycle that rebuilds the cache from the pods it visits.
populateMutant(map, pods, statuses) ==
    addNewPods(EmptyMap, pods, statuses, DOMAIN pods)

populate(map, pods, statuses) == addNewPods(map, pods, statuses, DOMAIN pods)

\* The (pod, volume) keys of a node cache.
EntryKeys(map) ==
    UNION {{<<podName, v>> : v \in DOMAIN map[podName]} : podName \in DOMAIN map}

\* The keys a cycle enqueues: those of the cache it makes from an empty one.
Enqueued(pods, statuses) == EntryKeys(populate(EmptyMap, pods, statuses))


----------------------------------------------------------------------------
(* Spec: the controller/node protocol for one claim and its volume, used   *)
(* by two pods of one node                                                  *)

\* The pods using the volume; both run on the node that has it mounted.
ProtoPods == {"pod-x", "pod-y"}

ProtoNode == "n1"

\* The pods that may finish while the protocol runs.
FinishingPods == {"pod-y"}

InitPod(p) == [name |-> p, node |-> ProtoNode, phase |-> "Running",
               ann |-> NoAnnotations]

\* The orders in which GetPodsInVolume lists the pods using the volume.
ProtoOrders == {o \in Orders(ProtoPods) : Len(o) = Cardinality(ProtoPods)}

\* The failing call of one fan-out, if any.
ProtoFails ==
    {NoFail} \cup
    {[kind |-> k, pod |-> p] : k \in {"get", "update"}, p \in ProtoPods}

Init ==
    /\ apiPods = [p \in ProtoPods |-> InitPod(p)]
    /\ mountedNodes = {ProtoNode}
    /\ pv = InitPV
    /\ pvc = InitPVC
    /\ pmPods = [p \in ProtoPods |-> InitPod(p)]
    /\ podStatuses = EmptyMap
    /\ deviceSize = 1
    /\ fsSize = 1
    /\ ctrl = IdleCtrl
    /\ inflight = {}
    /\ hist = NoHist
    /\ rec = NoRec
    /\ fan = NoFan
    /\ patchHist = NoPatchHist
    /\ RestMaps
    /\ RestGo

restVars == <<mountedNodes, fan, patchHist, goVars, rec>>

\* hist.op is "populate" from a populator cycle until the next step that
\* changes what a cycle reads or writes (the stored pods, the pod manager,
\* the status provider, the node cache); hist.added is what that cycle
\* enqueued.
Did(op, added) == [hist EXCEPT !.op = op, !.added = added]

\* The user edits the claim and asks for more.
RequestMore ==
    /\ pvc.request < MaxSize
    /\ pvc' = [pvc EXCEPT !.request = @ + 1]
    /\ UNCHANGED <<apiPods, pv, mapVars, pmPods, podStatuses, deviceSize,
                   fsSize, ctrl, inflight, restVars, hist>>

\* The producer observes the claim and calls AddPVCUpdate with the stored
\* claim and volume.
ObserveClaim ==
    /\ pvcrs' = AddPVCUpdate(pvcrs, pvc, pv, 0)
    /\ pvcrs' # pvcrs
    /\ UNCHANGED <<apiPods, pv, pvc, fsPods, pmPods, podStatuses, deviceSize,
                   fsSize, ctrl, inflight, restVars, hist>>

\* The reconciler drains the controller cache and takes up the request.
ReconcilerDrain ==
    /\ ctrl.pc = "idle"
    /\ pvcrs # EmptyMap
    /\ \E req \in GetPVCsWithResizeRequest(pvcrs) :
         ctrl' = [pc |-> "expand", req |-> req]
    /\ pvcrs' = EmptyMap
    /\ UNCHANGED <<apiPods, pv, pvc, fsPods, pmPods, podStatuses, deviceSize,
                   fsSize, inflight, restVars, hist>>

\* A step of the reconciler fails: the request is given up.
GiveUp == ctrl' = IdleCtrl

\* Step 3: the storage-specific resize of the device.
ExpandVolume ==
    /\ ctrl.pc = "expand"
    /\ \/ /\ deviceSize' = IF ctrl.req.ExpectedSize > deviceSize
                           THEN ctrl.req.ExpectedSize
                           ELSE deviceSize
          /\ ctrl' = [ctrl EXCEPT !.pc = "patch"]
       \/ GiveUp /\ UNCHANGED deviceSize
    /\ UNCHANGED <<apiPods, pv, pvc, mapVars, pmPods, podStatuses, fsSize,
                   inflight, restVars, hist>>

\* Step 4: UpdatePVSize(pvcr, newSize) with the size the device now has for
\* the request.
PersistVolumeSize ==
    /\ ctrl.pc = "patch"
    /\ \/ /\ pv' = UpdatePVSize(pv, ctrl.req, ctrl.req.ExpectedSize)
          /\ ctrl' = [ctrl EXCEPT !.pc = "status"]
       \/ GiveUp /\ UNCHANGED pv
    /\ UNCHANGED <<apiPods, pvc, mapVars, pmPods, podStatuses, deviceSize,
                   fsSize, inflight, restVars, hist>>

\* Step 5: MarkAsResized(pvcr, newSize).
PersistClaimStatus ==
    /\ ctrl.pc = "status"
    /\ \/ /\ ~UpdateStatusConflicts(pvc, ctrl.req)
          /\ pvc' = UpdateStatus(pvc, ClaimClone(ctrl.req, ctrl.req.ExpectedSize))
          /\ ctrl' = [ctrl EXCEPT !.pc = "fanout"]
       \/ GiveUp /\ UNCHANGED pvc
    /\ UNCHANGED <<apiPods, pv, mapVars, pmPods, podStatuses, deviceSize,
                   fsSize, inflight, restVars, hist>>

\* Step 6: MarkForFileSystemResize.
FanOut ==
    /\ ctrl.pc = "fanout"
    /\ \E pods \in ProtoOrders, fail \in ProtoFails :
         LET r == MarkForFileSystemResize(apiPods, pods, mountedNodes, V,
                                          FailsOf(fail, "get"),
                                          FailsOf(fail, "update"))
         IN  /\ apiPods' = r.store
             /\ hist' = [hist EXCEPT
                           !.op = "other", !.added = {},
                           !.fanoutFailed = r.err,
                           !.delivered = @ \ Range(r.updated),
                           !.cleared = @ \ Range(r.updated)]
    /\ ctrl' = IdleCtrl
    /\ UNCHANGED <<pv, pvc, mapVars, pmPods, podStatuses, deviceSize, fsSize,
                   inflight, restVars>>


\* The node's pod manager learns the stored record of a pod.
PodManagerSync(p) ==
    /\ pmPods[p] # apiPods[p]
    /\ pmPods' = [pmPods EXCEPT ![p] = apiPods[p]]
    /\ hist' = Did("other", {})
    /\ UNCHANGED <<apiPods, pv, pvc, mapVars, podStatuses, deviceSize, fsSize,
                   ctrl, inflight, restVars>>

\* One cycle of the populator loop.
Populate ==
    /\ fsPods' = populate(fsPods, pmPods, podStatuses)
    /\ hist' = Did("populate", Enqueued(pmPods, podStatuses))
    /\ UNCHANGED <<apiPods, pv, pvc, pvcrs, pmPods, podStatuses, deviceSize,
                   fsSize, ctrl, inflight, restVars>>

\* The consumer asks for the pending work and keeps what it got.
ConsumerDrain ==
    /\ fsPods # EmptyMap
    /\ LET batch == GetVolumesToResize(fsPods)
       IN  /\ inflight' = inflight \cup
                 {[pod |-> e.Pod.name, vol |-> e.VolumeName, stage |-> "pending"]
                    : e \in batch}
           /\ hist' = [hist EXCEPT
                         !.op = "other", !.added = {},
                         !.delivered = @ \cup
                            {e.Pod.name : e \in {b \in batch : b.VolumeName = V}}]
    /\ fsPods' = EmptyMap
    /\ UNCHANGED <<apiPods, pv, pvc, pvcrs, pmPods, podStatuses, deviceSize,
                   fsSize, ctrl, restVars>>

\* The consumer grows the filesystem to the size the device has, or fails
\* and drops the entry.
GrowFs(e) ==
    /\ e \in inflight
    /\ e.stage = "pending"
    /\ \/ /\ fsSize' = deviceSize
          /\ inflight' = (inflight \ {e}) \cup {[e EXCEPT !.stage = "grown"]}
       \/ /\ inflight' = inflight \ {e}
          /\ UNCHANGED fsSize
    /\ UNCHANGED <<apiPods, pv, pvc, mapVars, pmPods, podStatuses, deviceSize,
                   ctrl, restVars, hist>>

\* The consumer, having grown the filesystem, calls MarkAsFileSystemResized.
ClearSignal(e) ==
    /\ e \in inflight
    /\ e.stage = "grown"
    /\ \E getFails \in BOOLEAN, updFails \in BOOLEAN :
         LET r == MarkAsFileSystemResized(apiPods, [name |-> e.pod], e.vol,
                                          getFails, updFails)
         IN  /\ apiPods' = r.store
             /\ hist' = [hist EXCEPT
                           !.op = "other", !.added = {},
                           !.cleared = IF r.err \/ e.vol # V
                                       THEN @ ELSE @ \cup {e.pod}]
    /\ inflight' = inflight \ {e}
    /\ UNCHANGED <<pv, pvc, mapVars, pmPods, podStatuses, deviceSize, fsSize,
                   ctrl, restVars>>

\* The node's status provider observes that a pod has finished.
PodFinishes(p) ==
    /\ p \notin DOMAIN podStatuses
    /\ podStatuses' = MapPut(podStatuses, p, "Succeeded")
    /\ hist' = Did("other", {})
    /\ UNCHANGED <<apiPods, pv, pvc, mapVars, pmPods, deviceSize, fsSize,
                   ctrl, inflight, restVars>>

Next ==
    \/ RequestMore
    \/ ObserveClaim
    \/ ReconcilerDrain
    \/ ExpandVolume
    \/ PersistVolumeSize
    \/ PersistClaimStatus
    \/ FanOut
    \/ \E p \in ProtoPods : PodManagerSync(p)
    \/ \E p \in FinishingPods : PodFinishes(p)
    \/ Populate
    \/ ConsumerDrain
    \/ \E e \in inflight : GrowFs(e)
    \/ \E e \in inflight : ClearSignal(e)

Spec == Init /\ [][Next]_vars


\* The populator loop, the pod manager's updates and the consumer's drains
\* keep running.
FairSpec ==
    /\ Spec
    /\ WF_vars(Populate)
    /\ WF_vars(ConsumerDrain)
    /\ \A p \in ProtoPods : WF_vars(PodManagerSync(p))


----------------------------------------------------------------------------
(* Claims about the protocol *)

NoPodSignalled == \A p \in ProtoPods : ~SignalYes(apiPods, p, V)

\* The controller has nothing left to do for the volume: no request is in
\* progress, the claim reports the volume's recorded capacity, and its last
\* fan-out returned without error.
ControllerSettled ==
    /\ ctrl.pc = "idle"
    /\ pvc.status = pv.capacity
    /\ ~hist.fanoutFailed

(* C3: handshake invariant.  Whenever the controller has nothing left to   *)
(* do for the volume and no pod on the node where it is mounted carries    *)
(* its signal, no durable resize awaits filesystem growth there: the       *)
(* filesystem is as large as the volume's recorded capacity.               *)
C3_HandshakeInvariant ==
    (ControllerSettled /\ NoPodSignalled) => fsSize >= pv.capacity

NonTerminated(p) == ~isPodTerminated(pmPods[p], podStatuses)

(* C5: level-triggered re-derivation.  Right after every populator cycle,  *)
(* each non-terminated pod the pod manager reports with V's signal at      *)
(* "yes" has been enqueued by the cycle and is in the node cache, whatever *)
(* was drained before the cycle; so the entry is there after each of two   *)
(* cycles across which the signal stays.                                   *)
C5_LevelTriggered ==
    hist.op = "populate" =>
      \A p \in DOMAIN pmPods :
        (SignalYes(pmPods, p, V) /\ NonTerminated(p)) =>
          /\ <<p, V>> \in hist.added
          /\ <<p, V>> \in EntryKeys(fsPods)

\* A cycle has put the entry back after a drain handed it to the consumer.
C5_Witness ==
    /\ hist.op = "populate"
    /\ \E p \in ProtoPods :
         /\ SignalYes(pmPods, p, V)
         /\ NonTerminated(p)
         /\ \E e \in inflight : e.pod = p /\ e.vol = V
         /\ <<p, V>> \in EntryKeys(fsPods)

(* C7: after MarkAsFileSystemResized has succeeded for (pod, V), with no   *)
(* fan-out marking the pod again, and once the pod manager reports the     *)
(* stored pod, a populator cycle enqueues no entry for (pod, V).           *)
C7_NoEntryAfterClear ==
    hist.op = "populate" =>
      \A p \in ProtoPods :
        (p \in hist.cleared /\ pmPods[p] = apiPods[p]) =>
          <<p, V>> \notin hist.added

\* The pod was marked, delivered and cleared, and a cycle has run on the
\* pod manager's record of the cleared pod.
C7_Witness ==
    /\ hist.op = "populate"
    /\ \E p \in ProtoPods :
         /\ p \in hist.cleared
         /\ p \in hist.delivered
         /\ pmPods[p] = apiPods[p]
         /\ NonTerminated(p)
         /\ fsSize > 1

\* A pod gets V's signal in this step.
Marks == \E p \in ProtoPods : ~SignalYes(apiPods, p, V) /\ SignalYes(apiPods', p, V)

(* C8: causal ordering.  The claim never reports a capacity above the      *)
(* volume's recorded capacity; the step that raises the claim's reported   *)
(* capacity finds the volume's recorded capacity already at that value;    *)
(* and the step that marks a pod belongs to a request whose size both the  *)
(* volume and the claim already record.                                    *)
C8_CausalOrdering ==
    /\ [](pvc.status <= pv.capacity)
    /\ [][pvc'.status > pvc.status => pv.capacity >= pvc'.status]_vars
    /\ [][Marks => /\ ctrl.pc = "fanout"
                  /\ pv.capacity >= ctrl.req.ExpectedSize
                  /\ pvc.status >= ctrl.req.ExpectedSize]_vars

\* A pod is marked for the second resize of the volume.
C8_Witness ==
    /\ \E p \in ProtoPods : SignalYes(apiPods, p, V) /\ p \notin hist.delivered
    /\ ctrl.pc = "idle"
    /\ pv.capacity > 2
    /\ pvc.status = pv.capacity

(* C6: at-least-once delivery.  Under fair scheduling of the populator,    *)
(* the pod manager and the consumer's drains, once the controller has set  *)
(* V's signal on a pod that is not terminated, a GetVolumesToResize call   *)
(* made after that returns an entry (pod, V), unless the pod terminates.   *)
C6_AtLeastOnce ==
    \A p \in ProtoPods :
      (SignalYes(apiPods, p, V) /\ NonTerminated(p) /\ p \notin hist.delivered)
        ~> (p \in hist.delivered \/ ~NonTerminated(p))


----------------------------------------------------------------------------
(* SpecCodec: the signal codec on every short key and name, and a pod the  *)
(* controller marks and the populator scans                                 *)

MaxKeyLen == 3

Alphabet == {"r", "/", "a", "b"}

\* The strings over the alphabet of length n, and up to length n.
RECURSIVE StringsOfLen(_)
StringsOfLen(n) ==
    IF n = 0 THEN {<<>>}
    ELSE {Append(w, c) : w \in StringsOfLen(n - 1), c \in Alphabet}

Strings(n) == UNION {StringsOfLen(k) : k \in 0..n}

\* The volume names whose key is no longer than MaxKeyLen.
CodecNames == Strings(MaxKeyLen - Len(VolumeFsResizeAnnotationPrefix))

\* The pod of this specification: no signal yet, every unrelated annotation
\* at "yes".
CodecPod == [name |-> "pod-x", node |-> "n1", phase |-> "Running",
             ann |-> [k \in AnnKeys |->
                        IF k \in UnrelatedKeys THEN "yes" ELSE NoValue]]

InitCodec ==
    /\ \E key \in Strings(MaxKeyLen), name \in CodecNames :
         rec = [kind |-> "codec", key |-> key, name |-> name, applied |-> FALSE,
                ok |-> FALSE, decoded |-> <<>>, roundOk |-> FALSE,
                roundName |-> <<>>, marked |-> {}, cycled |-> FALSE,
                markedThen |-> {}]
    /\ apiPods = [p \in {"pod-x"} |-> CodecPod]
    /\ fsPods = EmptyMap
    /\ pvcrs = EmptyMap
    /\ pmPods = EmptyMap
    /\ podStatuses = EmptyMap
    /\ deviceSize = 1
    /\ fsSize = 1
    /\ ctrl = IdleCtrl
    /\ inflight = {}
    /\ hist = NoHist
    /\ mountedNodes = {"n1"}
    /\ fan = NoFan
    /\ pv = NoPV
    /\ pvc = NoPVC
    /\ patchHist = NoPatchHist
    /\ RestGo

codecRest == <<mountedNodes, fan, pv, pvc, patchHist, pvcrs, goVars, pmPods,
               podStatuses, deviceSize, fsSize, ctrl, inflight, hist>>

\* The decoder on the key, and the decoder on the encoding of the name.
CodecApply ==
    /\ ~rec.applied
    /\ rec' = [rec EXCEPT
                 !.applied = TRUE,
                 !.ok = IsVolumeFsResizeAnnotation(rec.key),
                 !.decoded = GetVolumeUniqueNameFromFsResizeAnnotation(rec.key),
                 !.roundOk = IsVolumeFsResizeAnnotation(
                               GetVolumeFsResizeAnnotation(rec.name)),
                 !.roundName = GetVolumeUniqueNameFromFsResizeAnnotation(
                                 GetVolumeFsResizeAnnotation(rec.name))]
    /\ UNCHANGED <<apiPods, fsPods, codecRest>>

\* The controller marks the pod for a volume (lines 325-332).
CodecMark(v) ==
    /\ v \notin rec.marked
    /\ apiPods' = [apiPods EXCEPT
                     !["pod-x"] = updatePodAnnotationForPVCResizing(@, v)]
    /\ rec' = [rec EXCEPT !.marked = @ \cup {v}]
    /\ UNCHANGED <<fsPods, codecRest>>

\* The populator scans the pod (part_000 lines 73-83).
CodecScan ==
    /\ fsPods' = processPodVolumes(fsPods, apiPods["pod-x"],
                                   SignalKeys(apiPods["pod-x"]))
    /\ rec' = [rec EXCEPT !.cycled = TRUE, !.markedThen = rec.marked]
    /\ UNCHANGED <<apiPods, codecRest>>

NextCodec ==
    \/ CodecApply
    \/ \E v \in VolumeNames : CodecMark(v)
    \/ CodecScan

SpecCodec == InitCodec /\ [][NextCodec]_vars

\* The volume names of the entries the node cache holds for a pod.
VolumesOf(map, podName) ==
    IF podName \in DOMAIN map
    THEN {e.VolumeName : e \in MapValues(map[podName])}
    ELSE {}

(* C11: signal codec round trip.  Decoding the key made from a name gives  *)
(* that name with ok; a key decodes with ok exactly when some name encodes *)
(* to it, and then to that name.  So the volume names of the entries the   *)
(* populator makes for a pod are exactly the names the controller marked   *)
(* it for, and annotations that are no signal make no entry.               *)
C11_CodecRoundTrip ==
    /\ rec.applied =>
         /\ rec.roundOk /\ rec.roundName = rec.name
         /\ rec.ok <=> \E n \in Strings(MaxKeyLen) :
                         GetVolumeFsResizeAnnotation(n) = rec.key
         /\ rec.ok => GetVolumeFsResizeAnnotation(rec.decoded) = rec.key
    /\ rec.cycled =>
         /\ VolumesOf(fsPods, "pod-x") = rec.markedThen
         /\ \A e \in GetVolumesToResize(fsPods) :
              e.Pod.ann[GetVolumeFsResizeAnnotation(e.VolumeName)] = "yes"

\* A key that is no signal was decoded, a name went the round trip, and the
\* scan of a pod marked for both volumes made the two entries.
C11_Witness ==
    /\ rec.applied /\ ~rec.ok /\ Len(rec.key) = MaxKeyLen
    /\ Len(rec.name) > 0
    /\ rec.cycled
    /\ VolumesOf(fsPods, "pod-x") = VolumeNames


----------------------------------------------------------------------------
(* SpecPopulate: populator cycles and drains of the node cache while the   *)
(* pod manager's pods and the status provider's statuses change             *)

PopPods == {"pod-x", "pod-y"}

OtherV == <<"b">>

\* The records the pod manager may hold for a pod: pod-x with any value of
\* V's signal, with or without the signal of a second volume, running or
\* failed by its own status; pod-y with or without V's signal.
PodChoices(p) ==
    IF p = "pod-x"
    THEN {[name |-> p, node |-> "n1", phase |-> ph,
           ann |-> [NoAnnotations EXCEPT
                      ![GetVolumeFsResizeAnnotation(V)] = a,
                      ![GetVolumeFsResizeAnnotation(OtherV)] = b]] :
            ph \in {"Running", "Failed"},
            a \in AnnValues \cup {NoValue},
            b \in {"yes", NoValue}}
    ELSE {[name |-> p, node |-> "n1", phase |-> "Running",
           ann |-> [NoAnnotations EXCEPT
                      ![GetVolumeFsResizeAnnotation(V)] = a]] :
            a \in {"yes", NoValue}}

\* The statuses the status provider may come to hold for a pod.
StatusChoices(p) ==
    IF p = "pod-x" THEN {"Running", "Succeeded"} ELSE {"Succeeded"}

NoCycle == [kind |-> "populate", op |-> "none", added |-> {}, before |-> {},
            batch |-> {}, latest |-> EmptyMap]

InitPopulate ==
    /\ pmPods = [p \in PopPods |-> InitPod(p)]
    /\ podStatuses = EmptyMap
    /\ fsPods = EmptyMap
    /\ rec = NoCycle
    /\ apiPods = EmptyMap
    /\ pvcrs = EmptyMap
    /\ deviceSize = 1
    /\ fsSize = 1
    /\ ctrl = IdleCtrl
    /\ inflight = {}
    /\ hist = NoHist
    /\ mountedNodes = {"n1"}
    /\ fan = NoFan
    /\ pv = NoPV
    /\ pvc = NoPVC
    /\ patchHist = NoPatchHist
    /\ RestGo

popRest == <<apiPods, mountedNodes, fan, pv, pvc, patchHist, pvcrs, goVars,
             deviceSize, fsSize, ctrl, inflight, hist>>

\* The snapshots of the latest add per (pod, volume) since the last drain,
\* after a cycle that enqueued the keys in added from the pods.
LatestAfter(latest, added, pods) ==
    [k \in DOMAIN latest \cup added |->
       IF k \in added THEN pods[k[1]] ELSE latest[k]]

\* One populator cycle.
PopCycle ==
    /\ fsPods' = populate(fsPods, pmPods, podStatuses)
    /\ LET added == Enqueued(pmPods, podStatuses)
           since == IF rec.op = "drain" THEN EmptyMap ELSE rec.latest
       IN  rec' = [rec EXCEPT !.op = "cycle", !.added = added,
                              !.before = EntryKeys(fsPods), !.batch = {},
                              !.latest = LatestAfter(since, added, pmPods)]
    /\ UNCHANGED <<pmPods, podStatuses, popRest>>

\* GetVolumesToResize.
PopDrain ==
    /\ fsPods # EmptyMap
    /\ fsPods' = EmptyMap
    /\ rec' = [rec EXCEPT !.op = "drain", !.added = {}, !.before = {},
                          !.batch = GetVolumesToResize(fsPods)]
    /\ UNCHANGED <<pmPods, podStatuses, popRest>>

\* What a step that is neither a cycle nor a drain leaves of the record.
Moved == [rec EXCEPT !.op = "other", !.added = {}, !.before = {}, !.batch = {},
                     !.latest = IF rec.op = "drain" THEN EmptyMap ELSE @]

\* The pod manager gets another record of a pod.
PopPodUpdate(p) ==
    /\ \E podObj \in PodChoices(p) :
         /\ podObj # pmPods[p]
         /\ pmPods' = [pmPods EXCEPT ![p] = podObj]
    /\ rec' = Moved
    /\ UNCHANGED <<fsPods, podStatuses, popRest>>

\* The status provider gets another status of a pod.
PopStatusUpdate(p) ==
    /\ \E st \in StatusChoices(p) :
         /\ p \in DOMAIN podStatuses => podStatuses[p] # st
         /\ podStatuses' = MapPut(podStatuses, p, st)
    /\ rec' = Moved
    /\ UNCHANGED <<fsPods, pmPods, popRest>>

NextPopulate ==
    \/ PopCycle
    \/ PopDrain
    \/ \E p \in PopPods : PopPodUpdate(p)
    \/ \E p \in PopPods : PopStatusUpdate(p)

SpecPopulate == InitPopulate /\ [][NextPopulate]_vars


\* The status a cycle goes by for a pod, and whether it is terminal.
StatusUsed(p) ==
    IF p \in DOMAIN podStatuses THEN podStatuses[p] ELSE pmPods[p].phase

Terminal(p) == StatusUsed(p) \in {"Failed", "Succeeded"}

(* C12: right after a populator cycle, no pod whose status was terminal    *)
(* at the cycle has been enqueued for any volume, and no key of such a pod *)
(* is new in the node cache; the status is the status provider's when it   *)
(* has one for the pod and the pod's own otherwise.                        *)
C12_NoTerminalEnqueue ==
    rec.op = "cycle" =>
      \A p \in PopPods :
        Terminal(p) =>
          /\ \A v \in VolumeNames : <<p, v>> \notin rec.added
          /\ \A k \in EntryKeys(fsPods) \ rec.before : k[1] # p

\* A cycle skipped pod-x, which carries the signal and is running by its
\* own status but finished by the status provider's, and enqueued pod-y.
C12_Witness ==
    /\ rec.op = "cycle"
    /\ SignalYes(pmPods, "pod-x", V)
    /\ pmPods["pod-x"].phase = "Running"
    /\ "pod-x" \in DOMAIN podStatuses
    /\ podStatuses["pod-x"] = "Succeeded"
    /\ <<"pod-x", V>> \notin EntryKeys(fsPods)
    /\ <<"pod-y", V>> \in rec.added

(* C16: node cache identity.  Between drains the node cache holds, for     *)
(* each (pod, volumeName) pair added since the last drain, one entry with  *)
(* the pod snapshot of the latest add for that pair, whatever was added    *)
(* for the pod's other volumes before or after; a drain returns exactly    *)
(* these entries, one per pair, however many cycles added them.            *)
C16_NodeCacheIdentity ==
    /\ rec.op # "drain" =>
         /\ EntryKeys(fsPods) = DOMAIN rec.latest
         /\ \A k \in DOMAIN rec.latest :
              /\ fsPods[k[1]][k[2]].Pod = rec.latest[k]
              /\ fsPods[k[1]][k[2]].VolumeName = k[2]
    /\ rec.op = "drain" =>
         /\ {<<GetUniquePodName(e.Pod), e.VolumeName>> : e \in rec.batch}
              = DOMAIN rec.latest
         /\ \A e \in rec.batch :
              e.Pod = rec.latest[<<GetUniquePodName(e.Pod), e.VolumeName>>]
         /\ Cardinality(rec.batch) = Cardinality(DOMAIN rec.latest)

\* A drain returned two volumes of pod-x with different snapshots: the
\* second volume's from an earlier cycle, V's from a later cycle made after
\* the pod's record changed.
C16_Witness ==
    /\ rec.op = "drain"
    /\ \E e1, e2 \in rec.batch :
         /\ GetUniquePodName(e1.Pod) = "pod-x" /\ e1.VolumeName = V
         /\ GetUniquePodName(e2.Pod) = "pod-x" /\ e2.VolumeName = OtherV
         /\ e1.Pod # e2.Pod
         /\ ~SignalYes([x \in {"pod-x"} |-> e1.Pod], "pod-x", OtherV)
    /\ Cardinality(rec.batch) = 2

(* C20: a populator cycle performs no removal.  Every (pod, volumeName)    *)
(* key the node cache held before a cycle is held after it, also the keys  *)
(* of pods that are terminated by then or no longer carry the signal.      *)
C20_CycleRemovesNothing ==
    rec.op = "cycle" => rec.before \subseteq EntryKeys(fsPods)

\* After a cycle the cache still holds V for pod-x, which is terminated,
\* and for pod-y, whose signal is gone; the cycle enqueued neither.
C20_Witness ==
    /\ rec.op = "cycle"
    /\ Terminal("pod-x")
    /\ ~SignalYes(pmPods, "pod-y", V)
    /\ {<<"pod-x", V>>, <<"pod-y", V>>} \subseteq EntryKeys(fsPods)
    /\ rec.added = {}


----------------------------------------------------------------------------
(* SpecRetry: a MarkForFileSystemResize call in which one call to the API  *)
(* may fail, followed by a second call for the same pods and nodes          *)

NoRetry == [kind |-> "retry", stage |-> 0, pods |-> <<>>, fail |-> NoFail,
            before |-> EmptyMap, err |-> FALSE, updated |-> <<>>,
            mid |-> EmptyMap, pods2 |-> <<>>, err2 |-> FALSE,
            updated2 |-> <<>>]

InitRetry ==
    /\ \E nodeOf \in [Pods -> Nodes \cup {NoNode}],
          sig \in [Pods -> AnnValues \cup {NoValue}] :
         apiPods = [p \in Pods |->
                      [name |-> p, node |-> nodeOf[p], phase |-> "Running",
                       ann |-> [NoAnnotations EXCEPT
                                  ![GetVolumeFsResizeAnnotation(V)] = sig[p]]]]
    /\ mountedNodes = Nodes
    /\ rec = NoRetry
    /\ fan = NoFan
    /\ pv = NoPV
    /\ pvc = NoPVC
    /\ patchHist = NoPatchHist
    /\ RestMaps
    /\ RestGo
    /\ pmPods = EmptyMap
    /\ podStatuses = EmptyMap
    /\ deviceSize = 1
    /\ fsSize = 1
    /\ ctrl = IdleCtrl
    /\ inflight = {}
    /\ hist = NoHist

retryRest == <<mountedNodes, fan, pv, pvc, patchHist, mapVars, goVars, pmPods,
               podStatuses, deviceSize, fsSize, ctrl, inflight, hist>>

\* The first call: all pods use the volume, listed in any order.
RetryFirst ==
    /\ rec.stage = 0
    /\ \E pods \in {o \in Orders(Pods) : Len(o) = Cardinality(Pods)},
          fail \in FailChoices :
         LET r == MarkForFileSystemResize(apiPods, pods, mountedNodes, V,
                                          FailsOf(fail, "get"),
                                          FailsOf(fail, "update"))
         IN  /\ apiPods' = r.store
             /\ rec' = [rec EXCEPT !.stage = 1, !.pods = pods, !.fail = fail,
                                   !.before = apiPods, !.err = r.err,
                                   !.updated = r.updated]
    /\ UNCHANGED retryRest

\* The later call: the same pods, listed in any order, and no failure.
RetryAgain ==
    /\ rec.stage = 1
    /\ \E pods \in {o \in Orders(Pods) : Len(o) = Cardinality(Pods)} :
         LET r == MarkForFileSystemResize(apiPods, pods, mountedNodes, V, {}, {})
         IN  /\ apiPods' = r.store
             /\ rec' = [rec EXCEPT !.stage = 2, !.mid = apiPods,
                                   !.pods2 = pods, !.err2 = r.err,
                                   !.updated2 = r.updated]
    /\ UNCHANGED retryRest

NextRetry == RetryFirst \/ RetryAgain

SpecRetry == InitRetry /\ [][NextRetry]_vars


\* The pods a call with no failure would have updated, in order.
WouldUpdate ==
    MarkForFileSystemResize(rec.before, rec.pods, mountedNodes, V, {}, {}).updated

\* The update of the failing pod was reached.
UpdateFailed ==
    /\ rec.stage >= 1
    /\ rec.fail.kind = "update"
    /\ rec.fail.pod \in Range(WouldUpdate)

\* The store after the first call.
AfterFirst == IF rec.stage = 1 THEN apiPods ELSE rec.mid

\* The node has a pod at "yes" in the store.
NodeMarked(store, n) == \E q \in Pods : store[q].node = n /\ SignalYes(store, q, V)

(* C13: partial fan-out failure.  When the update of a pod fails, the call *)
(* returns an error, the pods it updated are exactly those a call without  *)
(* failure updates before that pod, each of them is at "yes" in the store  *)
(* and every other pod is as before.  A later call for the same pods and   *)
(* nodes updates only pods of nodes without a marked pod, one per node,    *)
(* and leaves every node with a pod that can be marked with one.           *)
C13_PartialFanout ==
    /\ UpdateFailed =>
         /\ rec.err
         /\ \E i \in 1..Len(WouldUpdate) :
              /\ WouldUpdate[i] = rec.fail.pod
              /\ rec.updated = SubSeq(WouldUpdate, 1, i - 1)
         /\ \A p \in Pods :
              AfterFirst[p] = IF p \in Range(rec.updated)
                              THEN updatePodAnnotationForPVCResizing(rec.before[p], V)
                              ELSE rec.before[p]
    /\ (UpdateFailed /\ rec.stage = 2) =>
         /\ ~rec.err2
         /\ \A i \in 1..Len(rec.updated2) :
              /\ ~NodeMarked(rec.mid, rec.mid[rec.updated2[i]].node)
              /\ \A j \in 1..Len(rec.updated2) :
                   rec.mid[rec.updated2[i]].node = rec.mid[rec.updated2[j]].node
                     => i = j
         /\ \A p \in Pods :
              p \notin Range(rec.updated2) => apiPods[p] = rec.mid[p]
         /\ \A p \in Pods :
              rec.mid[p].node \in mountedNodes => NodeMarked(apiPods, rec.mid[p].node)

\* The lister lookup of a pod of the first call failed.
LookupFailed == rec.stage >= 1 /\ rec.fail.kind = "get"

(* C24: all-or-nothing on lookup failure.  When the lister lookup of any   *)
(* pod fails, at whatever place in the order the pod is listed, the call   *)
(* returns an error, has sent no update, and every pod is as before.       *)
C24_LookupFailureMarksNothing ==
    LookupFailed =>
        /\ rec.err
        /\ rec.updated = <<>>
        /\ AfterFirst = rec.before

\* The lookup of the pod listed last failed in a call that would have
\* marked a pod listed before it.
C24_Witness ==
    /\ rec.stage = 1
    /\ LookupFailed
    /\ rec.fail.pod = rec.pods[Len(rec.pods)]
    /\ WouldUpdate # <<>>
    /\ WouldUpdate[1] # rec.fail.pod

\* The first call marked a pod of one node and failed on a pod of the
\* other; the later call marked the other node only.
C13_Witness ==
    /\ UpdateFailed
    /\ rec.stage = 2
    /\ Len(rec.updated) = 1
    /\ Len(rec.updated2) = 1
    /\ rec.mid[rec.updated[1]].node # rec.mid[rec.updated2[1]].node
    /\ SignalYes(apiPods, rec.updated[1], V)


----------------------------------------------------------------------------
(* SpecGate: one AddPVCUpdate call on every claim and volume                *)

\* Quantities of a claim; 0 is the value read from a missing map key.
Quantities == 0..MaxSize

\* The claim references a volume may carry.
ClaimRefs == {NoRef,
              [namespace |-> "ns", name |-> "pvc-a"],
              [namespace |-> "ns2", name |-> "pvc-a"],
              [namespace |-> "ns", name |-> "pvc-b"]}

GateClaims ==
    {Claim(uid, phase, status, request) :
       uid \in {"u1", "u2"}, phase \in {"Bound", "Pending", "Lost"},
       status \in Quantities, request \in Quantities}

GateVolumes == {[InitPV EXCEPT !.claimRef = ref] : ref \in ClaimRefs}

\* The cache before the call: empty, or holding a request of claim u1.
GateMaps ==
    {EmptyMap, AddPVCUpdate(EmptyMap, Claim("u1", "Bound", 1, 2), InitPV, 0)}

InitGate ==
    /\ pvcrs \in GateMaps
    /\ \E pvcObj \in GateClaims, pvObj \in GateVolumes :
         rec = [kind |-> "gate", called |-> FALSE, pvcObj |-> pvcObj,
                pvObj |-> pvObj, before |-> pvcrs]
    /\ fsPods = EmptyMap
    /\ apiPods = EmptyMap
    /\ mountedNodes = {}
    /\ fan = NoFan
    /\ pv = NoPV
    /\ pvc = NoPVC
    /\ patchHist = NoPatchHist
    /\ RestGo
    /\ pmPods = EmptyMap
    /\ podStatuses = EmptyMap
    /\ deviceSize = 1
    /\ fsSize = 1
    /\ ctrl = IdleCtrl
    /\ inflight = {}
    /\ hist = NoHist

GateCall ==
    /\ ~rec.called
    /\ pvcrs' = AddPVCUpdate(pvcrs, rec.pvcObj, rec.pvObj, 1)
    /\ rec' = [rec EXCEPT !.called = TRUE]
    /\ UNCHANGED <<apiVars, fan, patchHist, fsPods, goVars, pmPods, podStatuses,
                   deviceSize, fsSize, ctrl, inflight, hist>>

NextGate == GateCall

SpecGate == InitGate /\ [][NextGate]_vars

\* The three conditions of the claim on the inputs of the call.
GateOpen ==
    /\ rec.pvObj.claimRef # NoRef
    /\ rec.pvObj.claimRef.namespace = rec.pvcObj.namespace
    /\ rec.pvObj.claimRef.name = rec.pvcObj.name
    /\ rec.pvcObj.phase = "Bound"
    /\ rec.pvcObj.status < rec.pvcObj.request

(* C14: stale-request gating.  AddPVCUpdate(claim, volume) puts an entry   *)
(* for the claim under its UID, leaving the other entries, exactly when    *)
(* the volume's claim reference exists and matches the claim's namespace   *)
(* and name, the claim is Bound and its status capacity is below its       *)
(* request; otherwise the cache is as before.  Every entry held has        *)
(* ExpectedSize > CurrentSize.                                             *)
C14_StaleRequestGating ==
    /\ rec.called =>
         IF GateOpen
         THEN /\ DOMAIN pvcrs = DOMAIN rec.before \cup {rec.pvcObj.uid}
              /\ pvcrs[rec.pvcObj.uid].PVC = rec.pvcObj
              /\ pvcrs[rec.pvcObj.uid].PersistentVolume = rec.pvObj
              /\ pvcrs[rec.pvcObj.uid].CurrentSize = rec.pvcObj.status
              /\ pvcrs[rec.pvcObj.uid].ExpectedSize = rec.pvcObj.request
              /\ \A k \in DOMAIN rec.before \ {rec.pvcObj.uid} :
                   pvcrs[k] = rec.before[k]
         ELSE pvcrs = rec.before
    /\ \A k \in DOMAIN pvcrs : pvcrs[k].ExpectedSize > pvcrs[k].CurrentSize

\* An accepted call next to the entry of another claim.
C14_Witness ==
    /\ rec.called
    /\ GateOpen
    /\ rec.pvcObj.uid = "u2"
    /\ DOMAIN pvcrs = {"u1", "u2"}
    /\ rec.pvcObj.status > 0


----------------------------------------------------------------------------
(* SpecCtrlMap: sequences of AddPVCUpdate, DeletePVC and                    *)
(* GetPVCsWithResizeRequest calls on the controller cache                   *)

\* Two claims of one namespace and name with different UIDs, at every
\* request and in a phase that is accepted or not.
CtrlClaims ==
    {Claim(uid, phase, 1, request) :
       uid \in {"u1", "u2"}, phase \in {"Bound", "Pending"}, request \in Sizes}

NoCtrlOp == [kind |-> "ctrl", op |-> "none", uid |-> "u1", before |-> EmptyMap,
             handed |-> {}, latest |-> EmptyMap]

InitCtrlMap ==
    /\ pvcrs = EmptyMap
    /\ inflight = {}
    /\ rec = NoCtrlOp
    /\ fsPods = EmptyMap
    /\ apiPods = EmptyMap
    /\ mountedNodes = {}
    /\ fan = NoFan
    /\ pv = NoPV
    /\ pvc = NoPVC
    /\ patchHist = NoPatchHist
    /\ RestGo
    /\ pmPods = EmptyMap
    /\ podStatuses = EmptyMap
    /\ deviceSize = 1
    /\ fsSize = 1
    /\ ctrl = IdleCtrl
    /\ hist = NoHist

ctrlMapRest == <<apiVars, fan, patchHist, fsPods, goVars, pmPods, podStatuses,
                 deviceSize, fsSize, ctrl, hist>>

\* Whether a call with this claim and the volume bound to it is one the
\* cache takes.
Accepted(pvcObj) == pvcObj.phase = "Bound" /\ pvcObj.status < pvcObj.request

CtrlAdd ==
    /\ \E pvcObj \in CtrlClaims :
         /\ pvcrs' = AddPVCUpdate(pvcrs, pvcObj, InitPV, 1)
         /\ rec' = [rec EXCEPT
                      !.op = "add", !.uid = pvcObj.uid, !.before = pvcrs,
                      !.handed = inflight,
                      !.latest = IF Accepted(pvcObj)
                                 THEN MapPut(@, pvcObj.uid,
                                             [PVC |-> pvcObj,
                                              PersistentVolume |-> InitPV,
                                              CurrentSize |-> pvcObj.status,
                                              ExpectedSize |-> pvcObj.request,
                                              ptr |-> 1])
                                 ELSE @]
    /\ UNCHANGED <<inflight, ctrlMapRest>>

CtrlDelete ==
    /\ \E pvcObj \in CtrlClaims :
         /\ pvcrs' = DeletePVC(pvcrs, pvcObj)
         /\ rec' = [rec EXCEPT !.op = "delete", !.uid = pvcObj.uid,
                               !.before = pvcrs, !.handed = inflight,
                               !.latest = MapDelete(@, pvcObj.uid)]
    /\ UNCHANGED <<inflight, ctrlMapRest>>

CtrlDrain ==
    /\ inflight' = GetPVCsWithResizeRequest(pvcrs)
    /\ pvcrs' = EmptyMap
    /\ rec' = [rec EXCEPT !.op = "drain", !.before = pvcrs,
                          !.handed = inflight, !.latest = EmptyMap]
    /\ UNCHANGED ctrlMapRest

NextCtrlMap == CtrlAdd \/ CtrlDelete \/ CtrlDrain

SpecCtrlMap == InitCtrlMap /\ [][NextCtrlMap]_vars

(* C15: controller cache identity.  After any sequence of calls the cache  *)
(* holds, under each claim UID, exactly the entry of the most recent       *)
(* accepted AddPVCUpdate for that UID since the last drain or delete, and  *)
(* nothing else; each entry sits under its own claim's UID, so claims of   *)
(* one namespace and name with different UIDs are distinct entries; and a  *)
(* drained batch has one entry per UID the cache held, no two with the     *)
(* same UID.                                                               *)
C15_ControllerCacheIdentity ==
    /\ pvcrs = rec.latest
    /\ \A k \in DOMAIN pvcrs : pvcrs[k].PVC.uid = k
    /\ rec.op = "drain" =>
         /\ \A a, b \in inflight : a.PVC.uid = b.PVC.uid => a = b
         /\ {a.PVC.uid : a \in inflight} = DOMAIN rec.before
         /\ \A a \in inflight : a = rec.before[a.PVC.uid]

\* Two claims of one namespace and name held at once, the first after a
\* second accepted add that replaced its earlier request.
C15_Witness ==
    /\ rec.op = "add"
    /\ rec.uid = "u1"
    /\ DOMAIN pvcrs = {"u1", "u2"}
    /\ "u1" \in DOMAIN rec.before
    /\ rec.before["u1"] # pvcrs["u1"]
    /\ pvcrs["u1"].PVC.name = pvcrs["u2"].PVC.name
    /\ pvcrs["u1"].PVC.namespace = pvcrs["u2"].PVC.namespace

(* C17: DeletePVC(claim) leaves the cache without the entry under that     *)
(* claim's UID and with every other entry as it was; with no such entry    *)
(* the cache is as before; and the batch handed out by an earlier drain is *)
(* as it was.                                                              *)
C17_DeletePVCFrame ==
    rec.op = "delete" =>
        /\ DOMAIN pvcrs = DOMAIN rec.before \ {rec.uid}
        /\ \A k \in DOMAIN pvcrs : pvcrs[k] = rec.before[k]
        /\ rec.uid \notin DOMAIN rec.before => pvcrs = rec.before
        /\ inflight = rec.handed

\* A delete of a claim whose earlier request is in the batch handed out and
\* whose newer request was in the cache next to another claim's.
C17_Witness ==
    /\ rec.op = "delete"
    /\ rec.uid = "u1"
    /\ DOMAIN rec.before = {"u1", "u2"}
    /\ DOMAIN pvcrs = {"u2"}
    /\ \E a \in inflight : a.PVC.uid = "u1" /\ a # rec.before["u1"]


----------------------------------------------------------------------------
(* SpecSentinel: fan-out calls and populator cycles over pods whose signal *)
(* key carries the sentinel, another value, or is absent                    *)

\* Values of the signal key: the sentinel, values that are near it, the
\* empty string, and no key at all.
SentinelValues == {"yes", "no", "Yes", "", NoValue}

NoSentinelOp == [kind |-> "sentinel", op |-> "none", pods |-> <<>>,
                 before |-> EmptyMap, updated |-> <<>>, added |-> {}]

InitSentinel ==
    /\ \E nodeOf \in [ProtoPods -> Nodes], sig \in [ProtoPods -> SentinelValues] :
         apiPods = [p \in ProtoPods |->
                      [name |-> p, node |-> nodeOf[p], phase |-> "Running",
                       ann |-> [NoAnnotations EXCEPT
                                  ![GetVolumeFsResizeAnnotation(V)] = sig[p]]]]
    /\ pmPods = apiPods
    /\ mountedNodes = Nodes
    /\ rec = NoSentinelOp
    /\ fsPods = EmptyMap
    /\ pvcrs = EmptyMap
    /\ podStatuses = EmptyMap
    /\ fan = NoFan
    /\ pv = NoPV
    /\ pvc = NoPVC
    /\ patchHist = NoPatchHist
    /\ RestGo
    /\ deviceSize = 1
    /\ fsSize = 1
    /\ ctrl = IdleCtrl
    /\ inflight = {}
    /\ hist = NoHist

sentinelRest == <<mountedNodes, fan, pv, pvc, patchHist, pvcrs, goVars,
                  podStatuses, deviceSize, fsSize, ctrl, inflight, hist>>

\* One MarkForFileSystemResize call in which no call to the API fails.
SentinelFanout ==
    /\ \E pods \in ProtoOrders :
         LET r == MarkForFileSystemResize(apiPods, pods, mountedNodes, V, {}, {})
         IN  /\ apiPods' = r.store
             /\ rec' = [rec EXCEPT !.op = "fanout", !.pods = pods,
                                   !.before = apiPods, !.updated = r.updated,
                                   !.added = {}]
    /\ UNCHANGED <<pmPods, fsPods, sentinelRest>>

\* The pod manager receives the pods as the API holds them.
SentinelSync ==
    /\ pmPods # apiPods
    /\ pmPods' = apiPods
    /\ rec' = [rec EXCEPT !.op = "sync", !.added = {}]
    /\ UNCHANGED <<apiPods, fsPods, sentinelRest>>

\* One populator cycle.
SentinelCycle ==
    /\ fsPods' = populate(fsPods, pmPods, podStatuses)
    /\ rec' = [rec EXCEPT !.op = "cycle",
                          !.added = Enqueued(pmPods, podStatuses)]
    /\ UNCHANGED <<apiPods, pmPods, sentinelRest>>

NextSentinel == SentinelFanout \/ SentinelSync \/ SentinelCycle

SpecSentinel == InitSentinel /\ [][NextSentinel]_vars

\* The pods of node n in the order the last fan-out visited them.
OnNode(n) == SelectSeq(rec.pods, LAMBDA p : rec.before[p].node = n)

(* C19: exact sentinel.  A populator cycle enqueues V for a pod exactly    *)
(* when the pod's signal key for V is "yes", and nothing for any other     *)
(* value.  A fan-out leaves a node alone exactly when one of its pods had  *)
(* the key at "yes"; a pod with any other value does not stand for its     *)
(* node, and the first pod visited on a node without a "yes" is marked,    *)
(* whatever value its key had.                                             *)
C19_ExactSentinel ==
    /\ rec.op = "cycle" =>
         rec.added = {<<p, V>> : p \in {q \in ProtoPods : SignalYes(pmPods, q, V)}}
    /\ rec.pods # <<>> =>
         \A n \in Nodes :
           LET here == OnNode(n)
               marked == {p \in Range(here) : p \in Range(rec.updated)}
           IN  IF \E p \in Range(here) : SignalYes(rec.before, p, V)
               THEN marked = {}
               ELSE here # <<>> => marked = {here[1]}

\* A fan-out marked pod-x, whose key was "Yes", on a node where pod-y's key
\* was "no"; after the pod manager got the pods, a cycle enqueued pod-x and
\* not pod-y.
C19_Witness ==
    /\ rec.op = "cycle"
    /\ rec.updated = <<"pod-x">>
    /\ rec.before["pod-x"].ann[GetVolumeFsResizeAnnotation(V)] = "Yes"
    /\ rec.before["pod-y"].ann[GetVolumeFsResizeAnnotation(V)] = "no"
    /\ rec.before["pod-x"].node = rec.before["pod-y"].node
    /\ pmPods = apiPods
    /\ pmPods["pod-y"].ann[GetVolumeFsResizeAnnotation(V)] = "no"
    /\ rec.added = {<<"pod-x", V>>}


----------------------------------------------------------------------------
(* SpecClear: MarkAsFileSystemResized calls made with a pod snapshot taken *)
(* before the stored pod was edited, next to MarkForFileSystemResize calls *)

\* The edits of the stored pod made after the snapshot was taken.
MaxEdits == 1

\* An annotation of no concern to the resize.
OtherKey == <<"x">>

\* The values an edit may give a key.
EditValues(key) ==
    IF key = OtherKey THEN {"v1", "v2", NoValue} ELSE {"yes", NoValue}

EditKeys ==
    {GetVolumeFsResizeAnnotation(V), GetVolumeFsResizeAnnotation(OtherV), OtherKey}

NoClear == [kind |-> "clear", op |-> "none", snapshot |-> EmptyMap,
            edits |-> 0, pod |-> "", before |-> EmptyMap, getFails |-> FALSE,
            updFails |-> FALSE, err |-> FALSE, again |-> FALSE,
            fanFails |-> FALSE]

InitClear ==
    /\ \E a, b, d \in {"yes", NoValue}, n \in Nodes :
         apiPods =
           [p \in ProtoPods |->
              IF p = "pod-x"
              THEN [name |-> p, node |-> "n1", phase |-> "Running",
                    ann |-> [NoAnnotations EXCEPT
                               ![GetVolumeFsResizeAnnotation(V)] = a,
                               ![GetVolumeFsResizeAnnotation(OtherV)] = b,
                               ![OtherKey] = "v1"]]
              ELSE [name |-> p, node |-> n, phase |-> "Running",
                    ann |-> [NoAnnotations EXCEPT
                               ![GetVolumeFsResizeAnnotation(V)] = d]]]
    /\ mountedNodes \in {{"n1"}, Nodes}
    /\ rec = [NoClear EXCEPT !.snapshot = apiPods]
    /\ fan = NoFan
    /\ pv = NoPV
    /\ pvc = NoPVC
    /\ patchHist = NoPatchHist
    /\ RestMaps
    /\ RestGo
    /\ pmPods = EmptyMap
    /\ podStatuses = EmptyMap
    /\ deviceSize = 1
    /\ fsSize = 1
    /\ ctrl = IdleCtrl
    /\ inflight = {}
    /\ hist = NoHist

clearRest == <<mountedNodes, pv, pvc, patchHist, mapVars, goVars, pmPods,
               podStatuses, deviceSize, fsSize, ctrl, inflight, hist>>

\* Another client of the API changes an annotation of pod-x.
ClearEdit ==
    /\ rec.edits < MaxEdits
    /\ \E key \in EditKeys :
         \E val \in EditValues(key) \ {apiPods["pod-x"].ann[key]} :
           apiPods' = [apiPods EXCEPT !["pod-x"].ann[key] = val]
    /\ rec' = [rec EXCEPT !.op = "edit", !.edits = @ + 1, !.before = EmptyMap,
                          !.pod = "", !.again = FALSE]
    /\ UNCHANGED <<fan, clearRest>>

\* MarkAsFileSystemResized with the snapshot of pod p, in which the Get or
\* the Update may fail.
ClearCall(p) ==
    /\ \E getFails, updFails \in BOOLEAN :
         LET r == MarkAsFileSystemResized(apiPods, rec.snapshot[p], V,
                                          getFails, updFails)
         IN  /\ apiPods' = r.store
             /\ rec' = [rec EXCEPT
                          !.op = "clear", !.pod = p, !.before = apiPods,
                          !.getFails = getFails, !.updFails = updFails,
                          !.err = r.err,
                          !.again = /\ rec.op = "clear"
                                    /\ rec.pod = p
                                    /\ ~rec.err]
    /\ UNCHANGED <<fan, clearRest>>

\* One MarkForFileSystemResize call for both pods, in which every Update
\* the call sends may fail.
ClearFanout ==
    /\ ~fan.called
    /\ \E pods \in ProtoOrders, updFails \in {{}, ProtoPods} :
         LET r == MarkForFileSystemResize(apiPods, pods, mountedNodes, V, {},
                                          updFails)
         IN  /\ apiPods' = r.store
             /\ fan' = [called |-> TRUE, pods |-> pods, before |-> apiPods,
                        err |-> r.err, updated |-> r.updated]
             /\ rec' = [rec EXCEPT
                          !.op = "fanout", !.pod = "", !.before = EmptyMap,
                          !.again = FALSE, !.fanFails = updFails # {}]
    /\ UNCHANGED clearRest

NextClear == ClearEdit \/ (\E p \in ProtoPods : ClearCall(p)) \/ ClearFanout

SpecClear == InitClear /\ [][NextClear]_vars

\* The stored pod the last clearing call fetched, and V's key.
Fetched == rec.before[rec.pod]

KeyV == GetVolumeFsResizeAnnotation(V)

(* C21: clearing re-fetches.  A MarkAsFileSystemResized(pod, V) call whose *)
(* Get and Update succeed leaves the stored pod as it was fetched at the   *)
(* call, edits made since the snapshot included, but for V's signal key,   *)
(* which is gone; every other annotation, the signal of another volume     *)
(* included, and every other pod is as stored before the call.  When the   *)
(* Get fails the call returns an error and the store is as before.         *)
C21_ClearingRefetches ==
    rec.op = "clear" =>
        /\ rec.getFails => rec.err /\ apiPods = rec.before
        /\ (~rec.getFails /\ ~rec.updFails) =>
             /\ ~rec.err
             /\ apiPods[rec.pod].ann[KeyV] = NoValue
             /\ \A k \in AnnKeys \ {KeyV} :
                  apiPods[rec.pod].ann[k] = Fetched.ann[k]
             /\ apiPods[rec.pod].node = Fetched.node
             /\ apiPods[rec.pod].phase = Fetched.phase
             /\ \A q \in ProtoPods \ {rec.pod} : apiPods[q] = rec.before[q]

\* A call cleared V's signal of pod-x after an edit changed an annotation
\* of the pod the snapshot has at another value; the pod keeps the edited
\* value and the signal of the second volume.
C21_Witness ==
    /\ rec.op = "clear" /\ rec.pod = "pod-x" /\ ~rec.err
    /\ Fetched.ann[KeyV] = "yes"
    /\ rec.snapshot["pod-x"].ann[OtherKey] = "v1"
    /\ Fetched.ann[OtherKey] = "v2"
    /\ apiPods["pod-x"].ann[OtherKey] = "v2"
    /\ apiPods["pod-x"].ann[GetVolumeFsResizeAnnotation(OtherV)] = "yes"
    /\ apiPods["pod-x"].ann[KeyV] = NoValue


\* Every mounted node that hosts a pod using V had a pod at "yes" when the
\* last fan-out started.
AllNodesMarked ==
    \A n \in mountedNodes :
      (\E p \in ProtoPods : fan.before[p].node = n)
      => \E q \in ProtoPods : fan.before[q].node = n /\ SignalYes(fan.before, q, V)

(* C22: idempotent mark and clear.  A MarkAsFileSystemResized call that    *)
(* finds the stored pod without V's signal key returns without error and   *)
(* sends no update (it returns so even when every update would fail), so a *)
(* second clearing leaves the state of the first.  A                       *)
(* MarkForFileSystemResize call started when every mounted node hosting a  *)
(* pod that uses V has a pod at "yes" sends no update, returns without     *)
(* error and leaves every pod as it was.                                   *)
C22_IdempotentMarkAndClear ==
    /\ (rec.op = "clear" /\ ~rec.getFails /\ ~HasKey(Fetched.ann, KeyV)) =>
         ~rec.err /\ apiPods = rec.before
    /\ (rec.op = "clear" /\ rec.again /\ ~rec.getFails) =>
         ~rec.err /\ apiPods = rec.before
    /\ (fan.called /\ AllNodesMarked) =>
         /\ ~fan.err
         /\ fan.updated = <<>>
         /\ rec.op = "fanout" => apiPods = fan.before

\* A second clearing of pod-x, whose snapshot has the signal, returned
\* without error though its update would have failed; before it a fan-out
\* whose updates would have failed found pod-y at "yes" next to pod-x
\* without the signal on the one mounted node and returned without error.
C22_Witness ==
    /\ rec.op = "clear" /\ rec.pod = "pod-x" /\ rec.again
    /\ rec.updFails /\ ~rec.getFails /\ ~rec.err
    /\ SignalYes(rec.snapshot, "pod-x", V)
    /\ fan.called /\ rec.fanFails /\ ~fan.err
    /\ fan.before["pod-x"].node = fan.before["pod-y"].node
    /\ SignalYes(fan.before, "pod-y", V)
    /\ ~SignalYes(fan.before, "pod-x", V)


----------------------------------------------------------------------------
(* SpecReprocess: the controller side of the protocol, in which the claim  *)
(* is observed again and again, the reconciler keeps draining, every       *)
(* operation it starts returns, and a step that is tried again and again   *)
(* succeeds at some time                                                   *)

NextReprocess ==
    \/ RequestMore
    \/ ObserveClaim
    \/ ReconcilerDrain
    \/ ExpandVolume
    \/ PersistVolumeSize
    \/ PersistClaimStatus
    \/ FanOut

SpecReprocess ==
    /\ Init /\ [][NextReprocess]_vars
    /\ WF_vars(ObserveClaim)
    /\ WF_vars(ReconcilerDrain)
    /\ WF_vars(ExpandVolume)
    /\ WF_vars(PersistVolumeSize)
    /\ WF_vars(PersistClaimStatus)
    /\ WF_vars(FanOut)
    /\ SF_vars(ExpandVolume /\ ctrl'.pc = "patch")
    /\ SF_vars(PersistVolumeSize /\ ctrl'.pc = "status")
    /\ SF_vars(PersistClaimStatus /\ ctrl'.pc = "fanout")

\* The volume records the requested size and the claim does not report it.
HalfDone == pv.capacity >= pvc.request /\ pvc.status < pvc.request

(* C23: self-correction after a partial failure.  Whenever the volume      *)
(* records the requested size while the claim still reports less, an       *)
(* AddPVCUpdate call with the stored claim and volume is accepted with the *)
(* claim's request as its expected size; and every size the volume records *)
(* while the claim reports less is reported by the claim at some later     *)
(* time, when the claim keeps being observed and reprocessed.              *)
C23_SelfCorrection ==
    /\ [](HalfDone =>
            LET map == AddPVCUpdate(pvcrs, pvc, pv, 0)
            IN  /\ UniquePVCKey(pvc) \in DOMAIN map
                /\ map[UniquePVCKey(pvc)].ExpectedSize = pvc.request
                /\ map[UniquePVCKey(pvc)].PersistentVolume = pv)
    /\ \A size \in Sizes :
         (pv.capacity = size /\ pvc.status < size) ~> (pvc.status >= size)

\* The claim reports the new size through a request that was accepted when
\* the volume recorded that size already.
C23_Witness ==
    /\ ctrl.pc = "fanout"
    /\ ctrl.req.PersistentVolume.capacity = ctrl.req.ExpectedSize
    /\ ctrl.req.CurrentSize < ctrl.req.ExpectedSize
    /\ pvc.status = ctrl.req.ExpectedSize
    /\ pv.capacity = pvc.status

============================================================================
